---- MODULE Spec2Model ----
(***************************************************************************)
(* BookNexus: the daily book-guessing game.                                *)
(*                                                                         *)
(* The module models the guess route of server/routes.ts on the in-memory  *)
(* storage (MemStorage), the client-side session of use-game.tsx together  *)
(* with the stateless guess route it talks to, and the statistics update.  *)
(*                                                                         *)
(* A request handler is an async function: it is cut at its await points.  *)
(* MemStorage hands out the stored GameState object itself, so a session   *)
(* is an object on a heap and a handler holds a reference to it.           *)
(*                                                                         *)
(*   Spec      requests are served one at a time (MemStorage's promises    *)
(*             are already resolved, the continuations of a handler run    *)
(*             before the next request is dispatched)                      *)
(*   SpecConc  two handlers interleave at their await points, as the       *)
(*             IStorage interface allows                                   *)
(*   SpecClient     the client-side session in two tabs, with the reset    *)
(*                  requests of /api/daily-book                            *)
(*   SpecStats      one tab with the result modal and the statistics       *)
(*   SpecStatsSeq   statistics updates served one at a time                *)
(*   SpecStatsConc  two statistics updates interleaved at their awaits     *)
(*   SpecCheck      the guess route over catalogs of varying years, pages, *)
(*                  text attributes, twins and sizes                       *)
(*   SpecLoading    requests served while the catalog is still empty       *)
(*   SpecDay        one tab through a day with resets and added books      *)
(*   SpecResult     one tab and the ways its result modal is closed        *)
(*   SpecFallback   the routes on FallbackStorage(Supabase, MemStorage)    *)
(*   SpecMirror     one tab of use-game.tsx against the session route      *)
(***************************************************************************)
EXTENDS Integers, Sequences, FiniteSets, TLC

\* ------------------------------------------------------------------ data

\* Titles are sequences of characters, so that toLowerCase is computed.
UpperChars == <<"D", "E", "N", "U">>
LowerChars == <<"d", "e", "n", "u">>

lowerChar(c) ==
  IF \E i \in 1..Len(UpperChars) : UpperChars[i] = c
  THEN LowerChars[CHOOSE i \in 1..Len(UpperChars) : UpperChars[i] = c]
  ELSE c

toLowerCase(s) == [i \in 1..Len(s) |-> lowerChar(s[i])]

\* The catalog the storage is constructed with (ids are given by addBook).
SampleBooks == <<
  [id |-> 1, title |-> <<"N", "a", "n", "a">>, author |-> "Emile Zola",
   publicationYear |-> 1880, genre |-> "Naturalism",
   authorsCountry |-> "France", pages |-> 480,
   originalLanguage |-> "French", historicalPeriod |-> "19th Century"],
  [id |-> 2, title |-> <<"D", "u", "n", "e">>, author |-> "Frank Herbert",
   publicationYear |-> 1965, genre |-> "Science Fiction",
   authorsCountry |-> "United States", pages |-> 412,
   originalLanguage |-> "English", historicalPeriod |-> "Far Future"],
  [id |-> 3, title |-> <<"U", "b", "i", "k">>, author |-> "Philip K. Dick",
   publicationYear |-> 1969, genre |-> "Science Fiction",
   authorsCountry |-> "United States", pages |-> 202,
   originalLanguage |-> "English", historicalPeriod |-> "Far Future"] >>

\* The calendar day of every request of the run (getTodayDateString).
Today == [year |-> 2025, month |-> 1, day |-> 1]

\* Request bodies: titles in another case, a proper prefix of a title
\* (resolves to nothing) and the empty string (fails the zod schema).
GuessTitles == { <<"U", "b", "i", "k">>, <<"n", "a", "n", "a">>,
                 <<"D", "U", "N", "E">>, <<"N", "a", "n">>, <<>> }

\* The titles two interleaved handlers submit.
ConcTitles == { <<"U", "b", "i", "k">>, <<"n", "a", "n", "a">>,
                <<"N", "a", "n">>, <<>> }

Handlers == {"h1", "h2"}

\* Handlers of POST /api/stats/update that can be in flight together.
StatsHandlers == {"s1", "s2"}

\* Statistics requests served in one run.
MaxStatsRequests == 3

\* Browser tabs of the one player, sharing localStorage.
Tabs == {"t1", "t2"}

\* The book parameter of /api/daily-book?reset=true&book=...: a title of
\* the catalog in another case, and one that resolves to nothing.
ResetTitles == { <<"n", "a", "n", "a">>, <<"N", "a", "n">> }

\* The titles typed into a tab.
ClientTitles == { <<"U", "b", "i", "k">>, <<"D", "U", "N", "E">>,
                  <<"N", "a", "n">> }

\* Statistics updates the model lets the player accumulate.
MaxGamesPlayed == 2

\* Session objects MemStorage.createGameState can allocate in one run.
ObjIds == {1, 2}

MaxAttempts == 8

Null == [null |-> TRUE]

Min(S) == CHOOSE x \in S : \A y \in S : x <= y

Abs(x) == IF x < 0 THEN -x ELSE x

\* ----------------------------------------------------------------- state

VARIABLES
  books,        \* MemStorage.books, in insertion order
  gameStates,   \* MemStorage.gameStates: 0 or the ObjId stored for Today
  heap,         \* the GameState objects; Null where none was allocated
  pc,           \* position of each handler
  bookTitle,    \* req.body.bookTitle of each handler
  gameState,    \* the handler's local gameState: 0 (undefined) or an ObjId
  dailyBook,    \* the handler's local dailyBook: a book id, 0 if undefined
  guessResult,  \* the result of checkGuess, Null before
  response,     \* what the handler sends, Null before
  localGameState,  \* use-game.tsx: the React state of each browser tab
  hasUpdatedStats, \* use-game.tsx: the React flag of each browser tab
  modalOpen,       \* GameResultModal: the open state in each browser tab
  guessStatus,     \* HTTP status of the tab's last guess request, 0 before
  correctBook,     \* data.dailyBook of that response: a book id, 0 if absent
  lsGameState,     \* localStorage gameState_<today>, Null if absent
  lsStatsUpdated,  \* localStorage statsUpdated_<today> is 'true'
  gameStats,       \* MemStorage.gameStatsByUser for user 1, Null if absent
  statsCurrentId,  \* MemStorage.statsCurrentId
  statsPc,         \* position of each handler of POST /api/stats/update
  statsBody,       \* its req.body: <<won, attempts>>
  loadedStats,     \* its local stats: the object getGameStats handed out
  pendingSave,     \* the updateGameStats call it awaits, Null if none
  usesFallback,      \* FallbackStorage.usesFallback
  primaryFails,      \* requests to Supabase come back with an error
  primaryCalled,     \* flips whenever withFallback invokes primaryFn
  primaryErrorLogged, \* withFallback has logged "Error using primary storage"
  supabaseGameState, \* the game_states row of Today, Null if absent
  supabaseGameStats  \* the game_stats row of user 1, Null if absent

serverVars == <<books, gameStates, heap>>

statsHandlerVars == <<statsPc, statsBody, loadedStats, pendingSave>>

\* The FallbackStorage of the build that runs on Supabase, and the tables
\* of that database.
fallbackVars == <<usesFallback, primaryFails, primaryCalled,
                  primaryErrorLogged, supabaseGameState, supabaseGameStats>>

\* The locals of the route handlers, those of the statistics route included,
\* and the storage only the Supabase build has.
handlerVars == <<pc, bookTitle, gameState, dailyBook, guessResult, response,
                 statsHandlerVars, fallbackVars>>

clientVars == <<localGameState, hasUpdatedStats, modalOpen, guessStatus,
                correctBook, lsGameState, lsStatsUpdated>>

statsVars == <<gameStats, statsCurrentId>>

vars == <<serverVars, handlerVars, clientVars, statsVars, statsHandlerVars,
          fallbackVars>>

\* -------------------------------------------------------------- storage

\* MemStorage.getBook: a book id, 0 for undefined.
getBook(bs, id) ==
  IF \E i \in 1..Len(bs) : bs[i].id = id THEN id ELSE 0

bookOf(bs, id) == bs[CHOOSE i \in 1..Len(bs) : bs[i].id = id]

\* MemStorage.getBookByTitle: the id of the first book whose title equals
\* the argument ignoring case, 0 for undefined.
getBookByTitle(bs, title) ==
  LET hits == {i \in 1..Len(bs) : toLowerCase(bs[i].title) = toLowerCase(title)}
  IN  IF hits = {} THEN 0 ELSE bs[Min(hits)].id

\* The ILIKE operator of PostgreSQL on a pattern and a text: % stands
\* for any run of characters, _ for any one character, every other
\* character for itself in either case.
RECURSIVE ilike(_, _)
ilike(pattern, text) ==
  IF pattern = <<>> THEN text = <<>>
  ELSE IF Head(pattern) = "%"
    THEN \/ ilike(Tail(pattern), text)
         \/ text # <<>> /\ ilike(pattern, Tail(text))
  ELSE /\ text # <<>>
       /\ Head(pattern) = "_" \/ lowerChar(Head(pattern)) = lowerChar(Head(text))
       /\ ilike(Tail(pattern), Tail(text))

\* SupabaseStorage.getBookByTitle: the possible results (book ids, 0 for
\* undefined) of .ilike('title', title).single(), which has an error
\* unless exactly one row matches.
supabaseGetBookByTitle(bs, title) ==
  LET rows == {i \in 1..Len(bs) : ilike(title, bs[i].title)}
  IN  IF Cardinality(rows) = 1 THEN {bs[i].id : i \in rows} ELSE {0}

\* PostgresStorage.getBookByTitle: the possible results of rows[0] of
\* SELECT * FROM books WHERE LOWER(title) = LOWER($1), a query without
\* ORDER BY.
postgresGetBookByTitle(bs, title) ==
  LET rows == {i \in 1..Len(bs) : toLowerCase(bs[i].title) = toLowerCase(title)}
  IN  IF rows = {} THEN {0} ELSE {bs[i].id : i \in rows}

\* MemStorage.getDailyBook: books[dateNum % books.length], as a book id.
dateNum(date) == date.year * 10000 + date.month * 100 + date.day

\* Mutant of getDailyBook: the index is taken modulo length + 1.
getDailyBook_lengthPlusOne(bs, date) ==
  LET index == dateNum(date) % (Len(bs) + 1)
  IN  IF index + 1 > Len(bs) THEN 0 ELSE bs[index + 1].id

getDailyBook(bs, date) ==
  IF Len(bs) = 0 THEN 0 ELSE bs[(dateNum(date) % Len(bs)) + 1].id

\* SupabaseStorage.getDailyBook on the rows select('*') returned:
\* rows[(getDate() + getMonth() * 31) % rows.length], getMonth() from 0.
supabaseGetDailyBook(rows, date) ==
  rows[((date.day + (date.month - 1) * 31) % Len(rows)) + 1].id

\* Mutant of initialAttributes: the genre is shown from the start.
initialAttributes_genreShown(b) == <<
  [name |-> "Publication Year", value |-> b.publicationYear,
   icon |-> "calendar_today", revealed |-> FALSE, type |-> "date"],
  [name |-> "Genre", value |-> b.genre,
   icon |-> "category", revealed |-> TRUE, type |-> "text"],
  [name |-> "Author's Country", value |-> b.authorsCountry,
   icon |-> "public", revealed |-> FALSE, type |-> "text"],
  [name |-> "Pages", value |-> b.pages,
   icon |-> "menu_book", revealed |-> FALSE, type |-> "number"],
  [name |-> "Author", value |-> b.author,
   icon |-> "person", revealed |-> FALSE, type |-> "text"],
  [name |-> "Original Language", value |-> b.originalLanguage,
   icon |-> "translate", revealed |-> FALSE, type |-> "text"],
  [name |-> "Historical Period", value |-> b.historicalPeriod,
   icon |-> "history_edu", revealed |-> FALSE, type |-> "text"] >>

\* MemStorage.createGameState: the object built for a daily book.
initialAttributes(b) == <<
  [name |-> "Publication Year", value |-> b.publicationYear,
   icon |-> "calendar_today", revealed |-> FALSE, type |-> "date"],
  [name |-> "Genre", value |-> b.genre,
   icon |-> "category", revealed |-> FALSE, type |-> "text"],
  [name |-> "Author's Country", value |-> b.authorsCountry,
   icon |-> "public", revealed |-> FALSE, type |-> "text"],
  [name |-> "Pages", value |-> b.pages,
   icon |-> "menu_book", revealed |-> FALSE, type |-> "number"],
  [name |-> "Author", value |-> b.author,
   icon |-> "person", revealed |-> FALSE, type |-> "text"],
  [name |-> "Original Language", value |-> b.originalLanguage,
   icon |-> "translate", revealed |-> FALSE, type |-> "text"],
  [name |-> "Historical Period", value |-> b.historicalPeriod,
   icon |-> "history_edu", revealed |-> FALSE, type |-> "text"] >>

createGameState(b, date) ==
  [id |-> <<"game", date>>,
   date |-> date,
   dailyBookId |-> b.id,
   remainingAttempts |-> MaxAttempts,
   guesses |-> <<>>,
   revealedAttributes |-> initialAttributes(b),
   gameStatus |-> "active"]

\* ------------------------------------------------------------ checkGuess

\* Mutant of getPublicationYearStatus: a difference of 10 is too far.
getPublicationYearStatus_below10(guessed, daily) ==
  LET diff == Abs(guessed.publicationYear - daily.publicationYear)
  IN  IF diff = 0 THEN "correct"
      ELSE IF diff < 10 THEN "partial"
      ELSE "incorrect"

getPublicationYearStatus(guessed, daily) ==
  LET diff == Abs(guessed.publicationYear - daily.publicationYear)
  IN  IF diff = 0 THEN "correct"
      ELSE IF diff <= 10 THEN "partial"
      ELSE "incorrect"

\* percentage <= 0.15 with percentage = diff / pages in doubles. The
\* quotient is the double nearest to diff/pages and the literal 0.15 the
\* double nearest to 3/20, so for the page counts of a catalog the test is
\* 20 * diff <= 3 * pages; diff / 0 is Infinity, and a negative quotient
\* is below 0.15.
withinPercentage(diff, pages) ==
  IF pages > 0 THEN 20 * diff <= 3 * pages
  ELSE IF pages = 0 THEN FALSE
  ELSE TRUE

\* Mutant of getPagesStatus: exactly 15% is too far.
getPagesStatus_below15(guessed, daily) ==
  LET diff == Abs(guessed.pages - daily.pages)
  IN  IF diff = 0 THEN "correct"
      ELSE IF daily.pages > 0 /\ 20 * diff < 3 * daily.pages THEN "partial"
      ELSE "incorrect"

\* Mutant of getPagesStatus: without the test of diff === 0.
getPagesStatus_withoutEqual(guessed, daily) ==
  LET diff == Abs(guessed.pages - daily.pages)
  IN  IF withinPercentage(diff, daily.pages) THEN "partial"
      ELSE "incorrect"

getPagesStatus(guessed, daily) ==
  LET diff == Abs(guessed.pages - daily.pages)
  IN  IF diff = 0 THEN "correct"
      ELSE IF withinPercentage(diff, daily.pages) THEN "partial"
      ELSE "incorrect"

\* Mutant of exactStatus: a mismatch is scored partial.
exactStatus_partialOnMismatch(a, b) == IF a = b THEN "correct" ELSE "partial"

\* a === b ? "correct" : "incorrect" on two strings.
exactStatus(a, b) == IF a = b THEN "correct" ELSE "incorrect"

\* Mutant of checkGuess: isCorrect compares the titles.
checkGuess_byTitle(guessed, daily) ==
  [title |-> guessed.title,
   isCorrect |-> (toLowerCase(guessed.title) = toLowerCase(daily.title)),
   attributes |->
     [publicationYear |-> [value |-> guessed.publicationYear,
                           status |-> getPublicationYearStatus(guessed, daily)],
      genre |-> [value |-> guessed.genre,
                 status |-> exactStatus(guessed.genre, daily.genre)],
      authorsCountry |-> [value |-> guessed.authorsCountry,
                          status |-> exactStatus(guessed.authorsCountry,
                                                 daily.authorsCountry)],
      pages |-> [value |-> guessed.pages,
                 status |-> getPagesStatus(guessed, daily)],
      author |-> [value |-> guessed.author,
                  status |-> exactStatus(guessed.author, daily.author)],
      originalLanguage |-> [value |-> guessed.originalLanguage,
                            status |-> exactStatus(guessed.originalLanguage,
                                                   daily.originalLanguage)],
      historicalPeriod |-> [value |-> guessed.historicalPeriod,
                            status |-> exactStatus(guessed.historicalPeriod,
                                                   daily.historicalPeriod)]]]

\* Mutant of checkGuess: genre and pages record the target's value.
checkGuess_targetValues(guessed, daily) ==
  [title |-> guessed.title,
   isCorrect |-> (guessed.id = daily.id),
   attributes |->
     [publicationYear |-> [value |-> guessed.publicationYear,
                           status |-> getPublicationYearStatus(guessed, daily)],
      genre |-> [value |-> daily.genre,
                 status |-> exactStatus(guessed.genre, daily.genre)],
      authorsCountry |-> [value |-> guessed.authorsCountry,
                          status |-> exactStatus(guessed.authorsCountry,
                                                 daily.authorsCountry)],
      pages |-> [value |-> daily.pages,
                 status |-> getPagesStatus(guessed, daily)],
      author |-> [value |-> guessed.author,
                  status |-> exactStatus(guessed.author, daily.author)],
      originalLanguage |-> [value |-> guessed.originalLanguage,
                            status |-> exactStatus(guessed.originalLanguage,
                                                   daily.originalLanguage)],
      historicalPeriod |-> [value |-> guessed.historicalPeriod,
                            status |-> exactStatus(guessed.historicalPeriod,
                                                   daily.historicalPeriod)]]]

\* The guess record checkGuess builds once the title has resolved.
checkGuess(guessed, daily) ==
  [title |-> guessed.title,
   isCorrect |-> (guessed.id = daily.id),
   attributes |->
     [publicationYear |-> [value |-> guessed.publicationYear,
                           status |-> getPublicationYearStatus(guessed, daily)],
      genre |-> [value |-> guessed.genre,
                 status |-> exactStatus(guessed.genre, daily.genre)],
      authorsCountry |-> [value |-> guessed.authorsCountry,
                          status |-> exactStatus(guessed.authorsCountry,
                                                 daily.authorsCountry)],
      pages |-> [value |-> guessed.pages,
                 status |-> getPagesStatus(guessed, daily)],
      author |-> [value |-> guessed.author,
                  status |-> exactStatus(guessed.author, daily.author)],
      originalLanguage |-> [value |-> guessed.originalLanguage,
                            status |-> exactStatus(guessed.originalLanguage,
                                                   daily.originalLanguage)],
      historicalPeriod |-> [value |-> guessed.historicalPeriod,
                            status |-> exactStatus(guessed.historicalPeriod,
                                                   daily.historicalPeriod)]]]

NotFoundResult == [error |-> "Book not found in database"]

isError(r) == "error" \in DOMAIN r

\* ---------------------------------------------------------------- reveal

orderPriority == <<"Publication Year", "Genre", "Pages", "Author's Country",
                   "Original Language", "Historical Period", "Author">>

unrevealedOf(attrs) == SelectSeq(attrs, LAMBDA a : ~a.revealed)

\* Mutant of nextToReveal: the first unrevealed attribute in array order.
nextToReveal_arrayOrder(attrs) == unrevealedOf(attrs)[1].name

\* The name of the attribute the guess route reveals next: the first name
\* of orderPriority that is unrevealed, else the first unrevealed one.
nextToReveal(attrs) ==
  LET unrevealed == unrevealedOf(attrs)
      hits == {i \in 1..Len(orderPriority) :
                 \E j \in 1..Len(unrevealed) :
                    unrevealed[j].name = orderPriority[i]}
  IN  IF hits # {} THEN orderPriority[Min(hits)] ELSE unrevealed[1].name

\* Mutant of revealOne: only the newly revealed attribute is shown.
revealOne_onlyLatest(attrs) ==
  IF Len(unrevealedOf(attrs)) > 0
  THEN [i \in 1..Len(attrs) |->
          [attrs[i] EXCEPT !.revealed = (attrs[i].name = nextToReveal(attrs))]]
  ELSE attrs

\* routes.ts "Reveal one attribute".
revealOne(attrs) ==
  IF Len(unrevealedOf(attrs)) > 0
  THEN LET name == nextToReveal(attrs)
           found == {i \in 1..Len(attrs) : attrs[i].name = name}
       IN  IF found # {}
           THEN [attrs EXCEPT ![Min(found)].revealed = TRUE]
           ELSE attrs
  ELSE attrs

\* Mutant of nextStatus: the attempts are tested before the verdict.
nextStatus_lostFirst(status, isCorrect, remaining) ==
  IF remaining <= 0 THEN "lost"
  ELSE IF isCorrect THEN "won"
  ELSE status

\* Mutant of nextStatus: lost only below 0 remaining attempts.
nextStatus_belowZero(status, isCorrect, remaining) ==
  IF isCorrect THEN "won"
  ELSE IF remaining < 0 THEN "lost"
  ELSE status

\* Mutant of nextStatus: the game is lost with one attempt left.
nextStatus_lostAtOne(status, isCorrect, remaining) ==
  IF isCorrect THEN "won"
  ELSE IF remaining <= 1 THEN "lost"
  ELSE status

\* routes.ts "Check if game is over".
nextStatus(status, isCorrect, remaining) ==
  IF isCorrect THEN "won"
  ELSE IF remaining <= 0 THEN "lost"
  ELSE status

\* Mutant of applyGuess: the attempt is not counted.
applyGuess_keepsAttempts(gs, guess) ==
  [gs EXCEPT
     !.guesses = Append(gs.guesses, guess),
     !.revealedAttributes = revealOne(gs.revealedAttributes),
     !.gameStatus = nextStatus(gs.gameStatus, guess.isCorrect,
                               gs.remainingAttempts)]

\* routes.ts "Update game state": the handler's mutation of the object.
applyGuess(gs, guess) ==
  LET remaining == gs.remainingAttempts - 1
  IN  [gs EXCEPT
         !.remainingAttempts = remaining,
         !.guesses = Append(gs.guesses, guess),
         !.revealedAttributes = revealOne(gs.revealedAttributes),
         !.gameStatus = nextStatus(gs.gameStatus, guess.isCorrect, remaining)]

\* Mutant of safeGameState: the whole object is sent.
safeGameState_keepsId(gs) == gs

\* { dailyBookId, ...safeGameState } = gameState
safeGameState(gs) ==
  [id |-> gs.id, date |-> gs.date,
   remainingAttempts |-> gs.remainingAttempts, guesses |-> gs.guesses,
   revealedAttributes |-> gs.revealedAttributes, gameStatus |-> gs.gameStatus]

\* ------------------------------------------------------------------ Init

\* The state after construction, for a given catalog.
InitWith(catalog) ==
  /\ books = catalog
  /\ gameStates = 0
  /\ heap = [o \in ObjIds |-> Null]
  /\ pc = [h \in Handlers |-> "idle"]
  /\ bookTitle = [h \in Handlers |-> <<>>]
  /\ gameState = [h \in Handlers |-> 0]
  /\ dailyBook = [h \in Handlers |-> 0]
  /\ guessResult = [h \in Handlers |-> Null]
  /\ response = [h \in Handlers |-> Null]
  /\ localGameState = [t \in Tabs |-> Null]
  /\ hasUpdatedStats = [t \in Tabs |-> FALSE]
  /\ modalOpen = [t \in Tabs |-> FALSE]
  /\ guessStatus = [t \in Tabs |-> 0]
  /\ correctBook = [t \in Tabs |-> 0]
  /\ lsGameState = Null
  /\ lsStatsUpdated = FALSE
  /\ gameStats = Null
  /\ statsCurrentId = 1
  /\ statsPc = [s \in StatsHandlers |-> "idle"]
  /\ statsBody = [s \in StatsHandlers |-> Null]
  /\ loadedStats = [s \in StatsHandlers |-> Null]
  /\ pendingSave = [s \in StatsHandlers |-> Null]
  /\ usesFallback = FALSE
  /\ primaryFails = FALSE
  /\ primaryCalled = FALSE
  /\ primaryErrorLogged = FALSE
  /\ supabaseGameState = Null
  /\ supabaseGameStats = Null

Init == InitWith(SampleBooks)

\* ------------------------------------------- POST /api/game/guess, steps

\* The request arrives; the body fails guessSchema.parse (empty title).
GuessInvalid(h, t) ==
  /\ pc[h] = "idle"
  /\ Len(t) < 1
  /\ bookTitle' = [bookTitle EXCEPT ![h] = t]
  /\ response' = [response EXCEPT ![h] =
                    [status |-> 400, error |-> "Invalid request"]]
  /\ pc' = [pc EXCEPT ![h] = "sent"]
  /\ UNCHANGED <<books, gameStates, heap, gameState, dailyBook, guessResult>>

\* The request arrives and the handler calls storage.getGameState(today).
GuessLoad(h, t) ==
  /\ pc[h] = "idle"
  /\ Len(t) >= 1
  /\ bookTitle' = [bookTitle EXCEPT ![h] = t]
  /\ gameState' = [gameState EXCEPT ![h] = gameStates]
  /\ pc' = [pc EXCEPT ![h] = "loaded"]
  /\ UNCHANGED <<books, gameStates, heap, dailyBook, guessResult, response>>

\* No session yet: createGameState is called and awaits getDailyBook.
GuessCreateBegin(h) ==
  /\ pc[h] = "loaded"
  /\ gameState[h] = 0
  /\ dailyBook' = [dailyBook EXCEPT ![h] = getDailyBook(books, Today)]
  /\ pc' = [pc EXCEPT ![h] = "creating"]
  /\ UNCHANGED <<books, gameStates, heap, bookTitle, gameState, guessResult,
                 response>>

\* createGameState builds the object and stores it under the date.
GuessCreateEnd(h) ==
  /\ pc[h] = "creating"
  /\ dailyBook[h] # 0
  /\ \E o \in ObjIds :
       /\ heap[o] = Null
       /\ \A p \in ObjIds : p < o => heap[p] # Null
       /\ heap' = [heap EXCEPT ![o] =
                     createGameState(bookOf(books, dailyBook[h]), Today)]
       /\ gameStates' = o
       /\ gameState' = [gameState EXCEPT ![h] = o]
  /\ pc' = [pc EXCEPT ![h] = "loaded"]
  /\ UNCHANGED <<books, bookTitle, dailyBook, guessResult, response>>

\* "Check if game is already over": the session is won or lost.
GuessRejectOver(h) ==
  /\ pc[h] = "loaded"
  /\ gameState[h] # 0
  /\ heap[gameState[h]].gameStatus # "active"
  /\ response' = [response EXCEPT ![h] =
                    [status |-> 400, error |-> "Game is already over"]]
  /\ pc' = [pc EXCEPT ![h] = "sent"]
  /\ UNCHANGED <<books, gameStates, heap, bookTitle, gameState, dailyBook,
                 guessResult>>

\* Mutant of GuessCheckBegin: a session that is over is scored as well.
GuessCheckBegin_whenOver(h) ==
  /\ pc[h] = "loaded"
  /\ gameState[h] # 0
  /\ dailyBook' = [dailyBook EXCEPT ![h] = getDailyBook(books, Today)]
  /\ pc' = [pc EXCEPT ![h] = "lookup"]
  /\ UNCHANGED <<books, gameStates, heap, bookTitle, gameState, guessResult,
                 response>>

\* The session is active: checkGuess is called and awaits getDailyBook.
GuessCheckBegin(h) ==
  /\ pc[h] = "loaded"
  /\ gameState[h] # 0
  /\ heap[gameState[h]].gameStatus = "active"
  /\ dailyBook' = [dailyBook EXCEPT ![h] = getDailyBook(books, Today)]
  /\ pc' = [pc EXCEPT ![h] = "lookup"]
  /\ UNCHANGED <<books, gameStates, heap, bookTitle, gameState, guessResult,
                 response>>

\* Mutant of GuessLookup: after the first guess of a session the guessed
\* book is scored against itself.
GuessLookup_againstLastGuess(h) ==
  /\ pc[h] = "lookup"
  /\ dailyBook[h] # 0
  /\ LET guessed == getBookByTitle(books, bookTitle[h])
     IN  guessResult' = [guessResult EXCEPT ![h] =
           IF guessed = 0 THEN NotFoundResult
           ELSE checkGuess(bookOf(books, guessed),
                           bookOf(books,
                             IF heap[gameState[h]].guesses = <<>>
                             THEN dailyBook[h]
                             ELSE guessed))]
  /\ pc' = [pc EXCEPT ![h] = "scored"]
  /\ UNCHANGED <<books, gameStates, heap, bookTitle, gameState, dailyBook,
                 response>>

\* checkGuess resolves the title and scores the guessed book.
GuessLookup(h) ==
  /\ pc[h] = "lookup"
  /\ dailyBook[h] # 0
  /\ LET guessed == getBookByTitle(books, bookTitle[h])
     IN  guessResult' = [guessResult EXCEPT ![h] =
           IF guessed = 0 THEN NotFoundResult
           ELSE checkGuess(bookOf(books, guessed),
                           bookOf(books, dailyBook[h]))]
  /\ pc' = [pc EXCEPT ![h] = "scored"]
  /\ UNCHANGED <<books, gameStates, heap, bookTitle, gameState, dailyBook,
                 response>>

\* Mutant of GuessNotFound: the unknown title costs an attempt.
GuessNotFound_consumesAttempt(h) ==
  /\ pc[h] = "scored"
  /\ isError(guessResult[h])
  /\ heap' = [heap EXCEPT ![gameState[h]].remainingAttempts = @ - 1]
  /\ response' = [response EXCEPT ![h] =
                    [status |-> 404, error |-> guessResult[h].error]]
  /\ pc' = [pc EXCEPT ![h] = "sent"]
  /\ UNCHANGED <<books, gameStates, bookTitle, gameState, dailyBook,
                 guessResult>>

\* 'error' in guessResult: 404, nothing else happens.
GuessNotFound(h) ==
  /\ pc[h] = "scored"
  /\ isError(guessResult[h])
  /\ response' = [response EXCEPT ![h] =
                    [status |-> 404, error |-> guessResult[h].error]]
  /\ pc' = [pc EXCEPT ![h] = "sent"]
  /\ UNCHANGED <<books, gameStates, heap, bookTitle, gameState, dailyBook,
                 guessResult>>

\* The guess is accepted: the object is mutated and updateGameState called.
GuessApply(h) ==
  /\ pc[h] = "scored"
  /\ ~isError(guessResult[h])
  /\ heap' = [heap EXCEPT ![gameState[h]] =
                applyGuess(heap[gameState[h]], guessResult[h])]
  /\ gameStates' = gameState[h]
  /\ pc' = [pc EXCEPT ![h] = "saved"]
  /\ UNCHANGED <<books, bookTitle, gameState, dailyBook, guessResult,
                 response>>

\* After the save, the session is still active: the response is sent.
GuessRespondActive(h) ==
  /\ pc[h] = "saved"
  /\ heap[gameState[h]].gameStatus = "active"
  /\ response' = [response EXCEPT ![h] =
                    [status |-> 200, guessResult |-> guessResult[h],
                     gameState |-> safeGameState(heap[gameState[h]])]]
  /\ pc' = [pc EXCEPT ![h] = "sent"]
  /\ UNCHANGED <<books, gameStates, heap, bookTitle, gameState, dailyBook,
                 guessResult>>

\* After the save, the game is over: storage.getBook(dailyBookId) is awaited.
GuessRespondOver(h) ==
  /\ pc[h] = "saved"
  /\ heap[gameState[h]].gameStatus # "active"
  /\ dailyBook' = [dailyBook EXCEPT ![h] =
                     getBook(books, heap[gameState[h]].dailyBookId)]
  /\ pc' = [pc EXCEPT ![h] = "disclose"]
  /\ UNCHANGED <<books, gameStates, heap, bookTitle, gameState, guessResult,
                 response>>

\* The response of a finished game carries the day's book.
GuessDisclose(h) ==
  /\ pc[h] = "disclose"
  /\ response' = [response EXCEPT ![h] =
                    [status |-> 200, guessResult |-> guessResult[h],
                     gameState |-> safeGameState(heap[gameState[h]]),
                     dailyBook |-> dailyBook[h]]]
  /\ pc' = [pc EXCEPT ![h] = "sent"]
  /\ UNCHANGED <<books, gameStates, heap, bookTitle, gameState, dailyBook,
                 guessResult>>

\* The response has gone out; the handler's locals are dropped.
Finish(h) ==
  /\ pc[h] = "sent"
  /\ pc' = [pc EXCEPT ![h] = "idle"]
  /\ bookTitle' = [bookTitle EXCEPT ![h] = <<>>]
  /\ gameState' = [gameState EXCEPT ![h] = 0]
  /\ dailyBook' = [dailyBook EXCEPT ![h] = 0]
  /\ guessResult' = [guessResult EXCEPT ![h] = Null]
  /\ response' = [response EXCEPT ![h] = Null]
  /\ UNCHANGED <<books, gameStates, heap>>

\* One step of the guess route by handler h.
GuessStep(h, titles) ==
  /\ UNCHANGED <<clientVars, statsVars, statsHandlerVars, fallbackVars>>
  /\ \/ \E t \in titles : GuessInvalid(h, t)
     \/ \E t \in titles : GuessLoad(h, t)
     \/ GuessCreateBegin(h)
     \/ GuessCreateEnd(h)
     \/ GuessRejectOver(h)
     \/ GuessCheckBegin(h)
     \/ GuessLookup(h)
     \/ GuessNotFound(h)
     \/ GuessApply(h)
     \/ GuessRespondActive(h)
     \/ GuessRespondOver(h)
     \/ GuessDisclose(h)
     \/ Finish(h)

\* ------------------------------------------------- GET /api/game, steps

\* The request arrives and the handler calls storage.getGameState(today).
GameLoad(h) ==
  /\ pc[h] = "idle"
  /\ gameState' = [gameState EXCEPT ![h] = gameStates]
  /\ pc' = [pc EXCEPT ![h] = "read"]
  /\ UNCHANGED <<books, gameStates, heap, bookTitle, dailyBook, guessResult,
                 response>>

\* No session yet: createGameState is called and awaits getDailyBook.
GameCreateBegin(h) ==
  /\ pc[h] = "read"
  /\ gameState[h] = 0
  /\ dailyBook' = [dailyBook EXCEPT ![h] = getDailyBook(books, Today)]
  /\ pc' = [pc EXCEPT ![h] = "readCreating"]
  /\ UNCHANGED <<books, gameStates, heap, bookTitle, gameState, guessResult,
                 response>>

\* createGameState builds the object and stores it under the date.
GameCreateEnd(h) ==
  /\ pc[h] = "readCreating"
  /\ dailyBook[h] # 0
  /\ \E o \in ObjIds :
       /\ heap[o] = Null
       /\ \A p \in ObjIds : p < o => heap[p] # Null
       /\ heap' = [heap EXCEPT ![o] =
                     createGameState(bookOf(books, dailyBook[h]), Today)]
       /\ gameStates' = o
       /\ gameState' = [gameState EXCEPT ![h] = o]
  /\ pc' = [pc EXCEPT ![h] = "read"]
  /\ UNCHANGED <<books, bookTitle, dailyBook, guessResult, response>>

\* res.json(safeGameState): the body is the session without dailyBookId.
GameRespond(h) ==
  /\ pc[h] = "read"
  /\ gameState[h] # 0
  /\ response' = [response EXCEPT ![h] =
                    [status |-> 200,
                     gameState |-> safeGameState(heap[gameState[h]])]]
  /\ pc' = [pc EXCEPT ![h] = "sent"]
  /\ UNCHANGED <<books, gameStates, heap, bookTitle, gameState, dailyBook,
                 guessResult>>

\* One step of the game-state route by handler h.
GameStep(h) ==
  /\ UNCHANGED <<clientVars, statsVars, statsHandlerVars, fallbackVars>>
  /\ \/ GameLoad(h)
     \/ GameCreateBegin(h)
     \/ GameCreateEnd(h)
     \/ GameRespond(h)

\* ----------------------------------------- the client-side session build
\* use-game.tsx keeps the session in React state and localStorage; the
\* guess route it posts to only scores the guess and stores no progress.

terminal(gs) == gs.gameStatus = "won" \/ gs.gameStatus = "lost"

\* use-game.tsx "crea uno stato iniziale" from the /api/daily-book answer.
initialState(bookAttributes, date) ==
  [id |-> <<"game", date>>,
   date |-> date,
   dailyBookId |-> 0,
   remainingAttempts |-> MaxAttempts,
   guesses |-> <<>>,
   revealedAttributes |-> bookAttributes,
   gameStatus |-> "active"]

\* The status of the guess for the attribute of a given display name.
matchStatus(name, guess) ==
  IF name = "Publication Year" THEN guess.attributes.publicationYear.status
  ELSE IF name = "Genre" THEN guess.attributes.genre.status
  ELSE IF name = "Author's Country" THEN guess.attributes.authorsCountry.status
  ELSE IF name = "Pages" THEN guess.attributes.pages.status
  ELSE IF name = "Author" THEN guess.attributes.author.status
  ELSE IF name = "Original Language"
       THEN guess.attributes.originalLanguage.status
  ELSE IF name = "Historical Period"
       THEN guess.attributes.historicalPeriod.status
  ELSE "none"

\* onSuccess "Aggiorna gli attributi rivelati in base al tentativo".
revealMatching(attrs, guess) ==
  [i \in 1..Len(attrs) |->
     IF matchStatus(attrs[i].name, guess) = "correct"
     THEN [attrs[i] EXCEPT !.revealed = TRUE]
     ELSE attrs[i]]

\* submitGuessToServer.onSuccess: the new local state.
onSuccess(gs, guess) ==
  LET remaining == gs.remainingAttempts - 1
  IN  [gs EXCEPT
         !.remainingAttempts = remaining,
         !.guesses = Append(gs.guesses, guess),
         !.revealedAttributes = revealMatching(gs.revealedAttributes, guess),
         !.gameStatus = nextStatus(gs.gameStatus, guess.isCorrect, remaining)]

\* MemStorage.updateGameStats: the record stored for the user.
updateGameStats(existing, insertStats, id) ==
  [id |-> IF existing # Null THEN existing.id ELSE id,
   userId |-> insertStats.userId,
   gamesPlayed |-> insertStats.gamesPlayed,
   gamesWon |-> insertStats.gamesWon,
   currentStreak |-> insertStats.currentStreak,
   maxStreak |-> insertStats.maxStreak,
   guessDistribution |-> insertStats.guessDistribution,
   lastPlayed |-> insertStats.lastPlayed]

\* POST /api/stats/update "Get or create stats".
emptyStats ==
  [id |-> 1, userId |-> 1, gamesPlayed |-> 0, gamesWon |-> 0,
   currentStreak |-> 0, maxStreak |-> 0, guessDistribution |-> <<>>,
   lastPlayed |-> Null]

\* "Ensure distribution array has enough elements (8 attempts possible)".
padDistribution(d) ==
  IF Len(d) >= 8 THEN d
  ELSE d \o [i \in 1..(8 - Len(d)) |-> 0]

\* Mutant of statsUpdate: the win is counted one slot further on.
statsUpdate_nextSlot(existing, won, attempts) ==
  LET stats == IF existing = Null THEN emptyStats ELSE existing
      distribution == padDistribution(stats.guessDistribution)
      streak == stats.currentStreak + 1
      slot == IF attempts < 8 THEN attempts + 1 ELSE 1
  IN  IF won
      THEN [stats EXCEPT
              !.gamesPlayed = stats.gamesPlayed + 1,
              !.gamesWon = stats.gamesWon + 1,
              !.currentStreak = streak,
              !.maxStreak = IF streak > stats.maxStreak THEN streak
                            ELSE stats.maxStreak,
              !.guessDistribution =
                 [distribution EXCEPT ![slot] = distribution[slot] + 1],
              !.lastPlayed = Today]
      ELSE [stats EXCEPT
              !.gamesPlayed = stats.gamesPlayed + 1,
              !.currentStreak = 0,
              !.guessDistribution = distribution,
              !.lastPlayed = Today]

\* Mutant of statsUpdate: a lost game leaves the streak.
statsUpdate_lossKeepsStreak(existing, won, attempts) ==
  LET stats == IF existing = Null THEN emptyStats ELSE existing
      distribution == padDistribution(stats.guessDistribution)
      streak == stats.currentStreak + 1
  IN  IF won
      THEN [stats EXCEPT
              !.gamesPlayed = stats.gamesPlayed + 1,
              !.gamesWon = stats.gamesWon + 1,
              !.currentStreak = streak,
              !.maxStreak = IF streak > stats.maxStreak THEN streak
                            ELSE stats.maxStreak,
              !.guessDistribution =
                 [distribution EXCEPT ![attempts] = distribution[attempts] + 1],
              !.lastPlayed = Today]
      ELSE [stats EXCEPT
              !.gamesPlayed = stats.gamesPlayed + 1,
              !.guessDistribution = distribution,
              !.lastPlayed = Today]

\* Mutant of statsUpdate: a win leaves maxStreak as it was.
statsUpdate_maxStreakKept(existing, won, attempts) ==
  LET stats == IF existing = Null THEN emptyStats ELSE existing
      distribution == padDistribution(stats.guessDistribution)
      streak == stats.currentStreak + 1
  IN  IF won
      THEN [stats EXCEPT
              !.gamesPlayed = stats.gamesPlayed + 1,
              !.gamesWon = stats.gamesWon + 1,
              !.currentStreak = streak,
              !.guessDistribution =
                 [distribution EXCEPT ![attempts] = distribution[attempts] + 1],
              !.lastPlayed = Today]
      ELSE [stats EXCEPT
              !.gamesPlayed = stats.gamesPlayed + 1,
              !.currentStreak = 0,
              !.guessDistribution = distribution,
              !.lastPlayed = Today]

\* POST /api/stats/update "Update stats": what is handed to the storage.
statsUpdate(existing, won, attempts) ==
  LET stats == IF existing = Null THEN emptyStats ELSE existing
      distribution == padDistribution(stats.guessDistribution)
      streak == stats.currentStreak + 1
  IN  IF won
      THEN [stats EXCEPT
              !.gamesPlayed = stats.gamesPlayed + 1,
              !.gamesWon = stats.gamesWon + 1,
              !.currentStreak = streak,
              !.maxStreak = IF streak > stats.maxStreak THEN streak
                            ELSE stats.maxStreak,
              !.guessDistribution =
                 [distribution EXCEPT ![attempts] = distribution[attempts] + 1],
              !.lastPlayed = Today]
      ELSE [stats EXCEPT
              !.gamesPlayed = stats.gamesPlayed + 1,
              !.currentStreak = 0,
              !.guessDistribution = distribution,
              !.lastPlayed = Today]

\* gamesPlayed of the stored stats, 0 while there are none.
gamesPlayedOf(stats) == IF stats = Null THEN 0 ELSE stats.gamesPlayed

\* statsSchema: won is a boolean, attempts an integer from 1 to 8.
validStatsBody(won, attempts) ==
  won \in BOOLEAN /\ attempts \in 1..8

\* The whole POST /api/stats/update handler on the storage.
postStatsUpdate(won, attempts) ==
  /\ validStatsBody(won, attempts)
  /\ gameStats' = updateGameStats(gameStats,
                                  statsUpdate(gameStats, won, attempts),
                                  statsCurrentId)
  /\ statsCurrentId' = statsCurrentId + 1

\* A tab is opened or reloaded: React state starts afresh, /api/daily-book
\* gets or creates the server's session and answers the attributes of its
\* book, and the effects load the session and flags from localStorage.
PageLoad(t) ==
  /\ IF gameStates = 0
     THEN /\ gameStates' = 1
          /\ heap' = [heap EXCEPT ![1] =
               createGameState(bookOf(books, getDailyBook(books, Today)),
                               Today)]
     ELSE UNCHANGED <<gameStates, heap>>
  /\ LET daily == getBook(books, heap'[gameStates'].dailyBookId)
         fresh == initialState(initialAttributes(bookOf(books, daily)), Today)
         loaded == IF lsGameState # Null THEN lsGameState ELSE fresh
     IN  /\ daily # 0
         /\ localGameState' = [localGameState EXCEPT ![t] = loaded]
         /\ lsGameState' = loaded
         /\ modalOpen' = [modalOpen EXCEPT ![t] = terminal(loaded)]
  /\ hasUpdatedStats' = [hasUpdatedStats EXCEPT ![t] = lsStatsUpdated]
  /\ guessStatus' = [guessStatus EXCEPT ![t] = 0]
  /\ correctBook' = [correctBook EXCEPT ![t] = 0]
  /\ UNCHANGED <<books, handlerVars, lsStatsUpdated, statsVars>>

\* The Submit button of game-board.tsx is enabled.
canSubmit(t) ==
  /\ localGameState[t] # Null
  /\ localGameState[t].gameStatus = "active"

\* makeGuess with a title no book has: the route answers 404, the
\* mutation fails and the local state stays.
ClientGuessNotFound(t, title) ==
  /\ canSubmit(t)
  /\ Len(title) >= 1
  /\ getBookByTitle(books, title) = 0
  /\ guessStatus' = [guessStatus EXCEPT ![t] = 404]
  /\ correctBook' = [correctBook EXCEPT ![t] = 0]
  /\ UNCHANGED <<serverVars, handlerVars, localGameState, hasUpdatedStats,
                 modalOpen, lsGameState, lsStatsUpdated, statsVars>>

\* The guess route of the client-side state version: the book it puts
\* into the response, 0 for none. Only a correct guess gets the book, the
\* one the server's session names.
disclosedBook(guess) ==
  IF guess.isCorrect THEN getBook(books, heap[gameStates].dailyBookId) ELSE 0

\* makeGuess with a title of the catalog: the route scores it against
\* getDailyBook(today) and onSuccess applies the result to the tab's
\* state, saves it to localStorage and lets the result modal open.
ClientGuess(t, title) ==
  /\ canSubmit(t)
  /\ Len(title) >= 1
  /\ getBookByTitle(books, title) # 0
  /\ getDailyBook(books, Today) # 0
  /\ LET guess == checkGuess(bookOf(books, getBookByTitle(books, title)),
                             bookOf(books, getDailyBook(books, Today)))
         updatedState == onSuccess(localGameState[t], guess)
     IN  /\ localGameState' = [localGameState EXCEPT ![t] = updatedState]
         /\ lsGameState' = updatedState
         /\ modalOpen' = [modalOpen EXCEPT ![t] =
                            modalOpen[t] \/ terminal(updatedState)]
         /\ correctBook' = [correctBook EXCEPT ![t] = disclosedBook(guess)]
  /\ guessStatus' = [guessStatus EXCEPT ![t] = 200]
  /\ UNCHANGED <<serverVars, handlerVars, hasUpdatedStats, lsStatsUpdated,
                 statsVars>>

\* MemStorage.createGameState called by a reset: a new object is stored
\* under the date. The object it replaces is referred to by nothing (no
\* handler is in flight) and its slot is free again.
storeNewGameState(obj) ==
  LET free == {o \in ObjIds : o # gameStates}
      new == Min(free)
  IN  /\ heap' = [o \in ObjIds |-> IF o = new THEN obj ELSE Null]
      /\ gameStates' = new

\* GET /api/daily-book?reset=true&book=title, the title resolves: a new
\* game state is created and its dailyBookId forced to the named book.
DailyBookResetWith(title) ==
  /\ \A h \in Handlers : pc[h] = "idle"
  /\ Len(title) >= 1
  /\ getBookByTitle(books, title) # 0
  /\ getDailyBook(books, Today) # 0
  /\ storeNewGameState(
       [createGameState(bookOf(books, getDailyBook(books, Today)), Today)
          EXCEPT !.dailyBookId = getBookByTitle(books, title)])
  /\ UNCHANGED <<books, handlerVars, clientVars, statsVars>>

\* GET /api/daily-book?reset=true: a new game state is created.
DailyBookReset ==
  /\ \A h \in Handlers : pc[h] = "idle"
  /\ getDailyBook(books, Today) # 0
  /\ storeNewGameState(
       createGameState(bookOf(books, getDailyBook(books, Today)), Today))
  /\ UNCHANGED <<books, handlerVars, clientVars, statsVars>>

\* handleUpdateStats, updateStats and updateStatsMutation let the request
\* through: no update yet in this tab and the game is over.
mayUpdateStats(t) ==
  /\ ~hasUpdatedStats[t]
  /\ localGameState[t] # Null
  /\ terminal(localGameState[t])

\* Mutant of ModalCloseUpdate: attempts is the number of attempts left.
ModalCloseUpdate_sendsRemaining(t) ==
  /\ modalOpen[t]
  /\ mayUpdateStats(t)
  /\ gamesPlayedOf(gameStats) < MaxGamesPlayed
  /\ modalOpen' = [modalOpen EXCEPT ![t] = FALSE]
  /\ hasUpdatedStats' = [hasUpdatedStats EXCEPT ![t] = TRUE]
  /\ lsStatsUpdated' = TRUE
  /\ postStatsUpdate(localGameState[t].gameStatus = "won",
                     localGameState[t].remainingAttempts)
  /\ UNCHANGED <<serverVars, handlerVars, localGameState, guessStatus,
                 correctBook, lsGameState>>

\* The Close button of the result modal: handleClose fires updateGameStats
\* and the guarded mutation posts the result of the session.
ModalCloseUpdate(t) ==
  /\ modalOpen[t]
  /\ mayUpdateStats(t)
  /\ gamesPlayedOf(gameStats) < MaxGamesPlayed
  /\ modalOpen' = [modalOpen EXCEPT ![t] = FALSE]
  /\ hasUpdatedStats' = [hasUpdatedStats EXCEPT ![t] = TRUE]
  /\ lsStatsUpdated' = TRUE
  /\ postStatsUpdate(localGameState[t].gameStatus = "won",
                     MaxAttempts - localGameState[t].remainingAttempts)
  /\ UNCHANGED <<serverVars, handlerVars, localGameState, guessStatus,
                 correctBook, lsGameState>>

\* The Close button when the guard holds the update back.
ModalCloseNoUpdate(t) ==
  /\ modalOpen[t]
  /\ ~mayUpdateStats(t)
  /\ modalOpen' = [modalOpen EXCEPT ![t] = FALSE]
  /\ UNCHANGED <<serverVars, handlerVars, localGameState, hasUpdatedStats,
                 guessStatus, correctBook, lsGameState, lsStatsUpdated,
                 statsVars>>

\* The dialog is closed by Escape or a click outside: onOpenChange sets
\* open to false and no updateGameStats event is fired.
ModalDismiss(t) ==
  /\ modalOpen[t]
  /\ modalOpen' = [modalOpen EXCEPT ![t] = FALSE]
  /\ UNCHANGED <<serverVars, handlerVars, localGameState, hasUpdatedStats,
                 guessStatus, correctBook, lsGameState, lsStatsUpdated,
                 statsVars>>

\* The tab has the day's book to show: the guess route sends it with a
\* correct guess only, and onSuccess keeps and persists it only then.
hasBookData(t) ==
  localGameState[t] # Null /\ localGameState[t].gameStatus = "won"

\* The result modal without book data closes itself: setTimeout(() =>
\* setOpen(false), 100), and no updateGameStats event is fired.
ModalAutoClose(t) ==
  /\ modalOpen[t]
  /\ ~hasBookData(t)
  /\ modalOpen' = [modalOpen EXCEPT ![t] = FALSE]
  /\ UNCHANGED <<serverVars, handlerVars, localGameState, hasUpdatedStats,
                 guessStatus, correctBook, lsGameState, lsStatsUpdated,
                 statsVars>>

\* POST /api/stats/update called once more with a valid body.
StatsUpdateRequest(won, attempts) ==
  /\ gamesPlayedOf(gameStats) < MaxGamesPlayed
  /\ postStatsUpdate(won, attempts)
  /\ UNCHANGED <<serverVars, handlerVars, clientVars>>

\* GET /api/stats: a player without stats gets the default stats stored,
\* with the distribution "[]"; stored stats are only read.
StatsGet ==
  /\ IF gameStats = Null
     THEN /\ gameStats' = updateGameStats(Null, emptyStats, statsCurrentId)
          /\ statsCurrentId' = statsCurrentId + 1
     ELSE UNCHANGED statsVars
  /\ UNCHANGED <<serverVars, handlerVars, clientVars>>

\* Bodies of direct calls of the stats endpoint.
StatsBodies == { <<TRUE, 3>>, <<FALSE, 8>> }

\* Two tabs of the player on the client-side session build.
NextClient ==
  \/ \E t \in Tabs : PageLoad(t)
  \/ \E t \in Tabs, title \in ClientTitles : ClientGuessNotFound(t, title)
  \/ \E t \in Tabs, title \in ClientTitles : ClientGuess(t, title)
  \/ \E title \in ResetTitles : DailyBookResetWith(title)
  \/ DailyBookReset

SpecClient == Init /\ [][NextClient]_vars

\* The largest catalog POST /api/books builds up.
MaxBooks == 4

\* The body of POST /api/books (the id is given by addBook).
NewBook ==
  [id |-> 0, title |-> <<"E", "m", "m", "a">>, author |-> "Jane Austen",
   publicationYear |-> 1815, genre |-> "Romance",
   authorsCountry |-> "United Kingdom", pages |-> 474,
   originalLanguage |-> "English", historicalPeriod |-> "19th Century"]

\* MemStorage.addBook: id = bookCurrentId++, one more than the books added
\* so far, and the book is set in the map.
addBook(bs, insertBook) ==
  Append(bs, [insertBook EXCEPT !.id = Len(bs) + 1])

\* POST /api/books with a valid body.
AddBook ==
  /\ \A h \in Handlers : pc[h] = "idle"
  /\ Len(books) < MaxBooks
  /\ books' = addBook(books, NewBook)
  /\ UNCHANGED <<gameStates, heap, handlerVars, clientVars, statsVars>>

\* One tab on the client-side session build through a day on which the
\* daily book is reset and books are added.
NextDay ==
  \/ PageLoad("t1")
  \/ \E title \in ClientTitles : ClientGuessNotFound("t1", title)
  \/ \E title \in ClientTitles : ClientGuess("t1", title)
  \/ \E title \in ResetTitles : DailyBookResetWith(title)
  \/ DailyBookReset
  \/ AddBook

SpecDay == Init /\ [][NextDay]_vars

\* One tab: the game, the result modal and the statistics.
NextStats ==
  \/ PageLoad("t1")
  \/ \E title \in ClientTitles : ClientGuessNotFound("t1", title)
  \/ \E title \in ClientTitles : ClientGuess("t1", title)
  \/ ModalCloseUpdate("t1")
  \/ ModalCloseNoUpdate("t1")
  \/ ModalDismiss("t1")
  \/ \E b \in StatsBodies : StatsUpdateRequest(b[1], b[2])
  \/ StatsGet

SpecStats == Init /\ [][NextStats]_vars

\* One tab from the first guess to the closed result modal. The modal is
\* closed whenever it is open (by the player or by its timer), and the
\* request of a close that updates the statistics succeeds.
ResultTitles == ClientTitles \cup { <<"n", "a", "n", "a">> }

NextResult ==
  \/ PageLoad("t1")
  \/ \E title \in ResultTitles : ClientGuessNotFound("t1", title)
  \/ \E title \in ResultTitles : ClientGuess("t1", title)
  \/ ModalCloseUpdate("t1")
  \/ ModalCloseNoUpdate("t1")
  \/ ModalDismiss("t1")
  \/ ModalAutoClose("t1")

modalCloses(t) ==
  \/ ModalCloseUpdate(t)
  \/ ModalCloseNoUpdate(t)
  \/ ModalDismiss(t)
  \/ ModalAutoClose(t)

SpecResult == Init /\ [][NextResult]_vars /\ WF_vars(modalCloses("t1"))

\* ------------------------------------- POST /api/stats/update, its steps
\* The handler is cut at its two awaits: storage.getGameStats and, inside
\* storage.updateGameStats, this.getGameStats. MemStorage hands out the
\* stored object itself, so stats.gamesPlayed++ and the other assignments
\* of the handler change the stored record in place; the distribution is
\* a string the handler parses into an array of its own. A handler's loadedStats
\* is [kind |-> "stored"] for the object now in the map, or
\* [kind |-> "own", value |-> r] for an object only this handler holds (the
\* one it built for a player without stats, or one a save has replaced).

\* Bodies of the statistics requests: every result of a game, and two
\* bodies statsSchema refuses.
AllStatsBodies == (BOOLEAN \X (1..8)) \cup { <<TRUE, 0>>, <<FALSE, 9>> }

\* The bodies two interleaved requests carry.
ConcStatsBodies == { <<TRUE, 1>>, <<TRUE, 3>>, <<FALSE, 8>>, <<TRUE, 9>> }

\* The assignments of "Update stats" to the fields of the stats object.
mutateStats(st, won) ==
  LET streak == st.currentStreak + 1
  IN  IF won
      THEN [st EXCEPT
              !.gamesPlayed = st.gamesPlayed + 1,
              !.gamesWon = st.gamesWon + 1,
              !.currentStreak = streak,
              !.maxStreak = IF streak > st.maxStreak THEN streak
                            ELSE st.maxStreak]
      ELSE [st EXCEPT
              !.gamesPlayed = st.gamesPlayed + 1,
              !.currentStreak = 0]

\* Requests that have arrived and have not called updateGameStats yet.
statsInFlight == Cardinality({s \in StatsHandlers : statsPc[s] = "loaded"})

\* statsSchema.parse throws: 400 "Invalid stats data".
StatsInvalid(s, body) ==
  /\ statsPc[s] = "idle"
  /\ ~validStatsBody(body[1], body[2])
  /\ statsBody' = [statsBody EXCEPT ![s] = body]
  /\ statsPc' = [statsPc EXCEPT ![s] = "sent"]
  /\ UNCHANGED <<statsVars, loadedStats, pendingSave>>

\* The request arrives and the handler calls storage.getGameStats(userId).
StatsLoad(s, body) ==
  /\ statsPc[s] = "idle"
  /\ validStatsBody(body[1], body[2])
  /\ (statsCurrentId - 1) + statsInFlight < MaxStatsRequests
  /\ statsBody' = [statsBody EXCEPT ![s] = body]
  /\ loadedStats' = [loadedStats EXCEPT ![s] =
                 IF gameStats = Null
                 THEN [kind |-> "own", value |-> emptyStats]
                 ELSE [kind |-> "stored"]]
  /\ statsPc' = [statsPc EXCEPT ![s] = "loaded"]
  /\ UNCHANGED <<statsVars, pendingSave>>

\* "Update stats" and the call of storage.updateGameStats up to its await:
\* the object is changed, the argument is a copy of it with the new
\* distribution, the id is drawn and the existing stats are looked up.
StatsCompute(s) ==
  /\ statsPc[s] = "loaded"
  /\ LET obj == IF loadedStats[s].kind = "stored" THEN gameStats
                ELSE loadedStats[s].value
         won == statsBody[s][1]
         attempts == statsBody[s][2]
     IN  /\ pendingSave' = [pendingSave EXCEPT ![s] =
               [insertStats |-> statsUpdate(obj, won, attempts),
                id |-> statsCurrentId,
                existingStats |-> gameStats]]
         /\ gameStats' = IF loadedStats[s].kind = "stored"
                         THEN mutateStats(gameStats, won)
                         ELSE gameStats
  /\ statsCurrentId' = statsCurrentId + 1
  /\ loadedStats' = [loadedStats EXCEPT ![s] = Null]
  /\ statsPc' = [statsPc EXCEPT ![s] = "saving"]
  /\ UNCHANGED statsBody

\* updateGameStats builds the record and puts it into the map; the object
\* that was there stays with the handlers that loaded it. The response
\* carries the saved record.
StatsSave(s) ==
  /\ statsPc[s] = "saving"
  /\ gameStats' = updateGameStats(pendingSave[s].existingStats,
                                  pendingSave[s].insertStats,
                                  pendingSave[s].id)
  /\ loadedStats' = [o \in StatsHandlers |->
                 IF loadedStats[o] # Null /\ loadedStats[o].kind = "stored"
                 THEN [kind |-> "own", value |-> gameStats]
                 ELSE loadedStats[o]]
  /\ pendingSave' = [pendingSave EXCEPT ![s] = Null]
  /\ statsPc' = [statsPc EXCEPT ![s] = "sent"]
  /\ UNCHANGED <<statsCurrentId, statsBody>>

\* The response has gone out.
StatsFinish(s) ==
  /\ statsPc[s] = "sent"
  /\ statsPc' = [statsPc EXCEPT ![s] = "idle"]
  /\ statsBody' = [statsBody EXCEPT ![s] = Null]
  /\ UNCHANGED <<statsVars, loadedStats, pendingSave>>

\* One step of the statistics route by handler s.
StatsStep(s, bodies) ==
  /\ UNCHANGED <<serverVars, pc, bookTitle, gameState, dailyBook,
                 guessResult, response, clientVars, fallbackVars>>
  /\ \/ \E body \in bodies : StatsInvalid(s, body)
     \/ \E body \in bodies : StatsLoad(s, body)
     \/ StatsCompute(s)
     \/ StatsSave(s)
     \/ StatsFinish(s)

statsOthersIdle(s) == \A o \in StatsHandlers \ {s} : statsPc[o] = "idle"

\* Statistics requests served one at a time.
NextStatsSeq ==
  \E s \in StatsHandlers : statsOthersIdle(s) /\ StatsStep(s, AllStatsBodies)

SpecStatsSeq == Init /\ [][NextStatsSeq]_vars

\* Two statistics requests interleaved at their awaits.
NextStatsConc == \E s \in StatsHandlers : StatsStep(s, ConcStatsBodies)

SpecStatsConc == Init /\ [][NextStatsConc]_vars

\* -------------------------------------------- checkGuess over catalogs
\* The guess route on catalogs of two books whose publication years, page
\* counts and text attributes run over ranges: the second book is the
\* daily book of Today, the first one the wrong guess. Further catalogs
\* hold two books alike in all but the id, and 1 to 3 sample books.

\* Width of the range of publication years.
MaxYearSpan == 12

Years == 1995..(1995 + MaxYearSpan)

YearCatalogs ==
  { << [SampleBooks[1] EXCEPT !.publicationYear = guessedYear],
       [SampleBooks[2] EXCEPT !.publicationYear = dailyYear] >> :
      guessedYear \in Years, dailyYear \in Years }

\* The largest page count of a book.
MaxPages == 20

PageCounts == 1..MaxPages

PageCatalogs ==
  { << [SampleBooks[1] EXCEPT !.pages = guessedPages],
       [SampleBooks[2] EXCEPT !.pages = dailyPages] >> :
      guessedPages \in PageCounts, dailyPages \in PageCounts }

\* The attributes checkGuess compares with ===.
ExactFields ==
  {"genre", "authorsCountry", "author", "originalLanguage", "historicalPeriod"}

\* The book b with the fields in S taken from src.
withFields(b, src, S) ==
  [f \in DOMAIN b |-> IF f \in S THEN src[f] ELSE b[f]]

\* The text attributes of the second sample book in lower case.
LowerCased ==
  [genre |-> "science fiction", authorsCountry |-> "united states",
   author |-> "frank herbert", originalLanguage |-> "english",
   historicalPeriod |-> "far future"]

\* The first book shares any subset of the text attributes with the
\* second, or has one of them in another case.
AttributeCatalogs ==
  { << withFields(SampleBooks[1], SampleBooks[2], S), SampleBooks[2] >> :
      S \in SUBSET ExactFields }
  \cup
  { << withFields(SampleBooks[1], LowerCased, {f}), SampleBooks[2] >> :
      f \in ExactFields }

\* Two books with the same attribute values and different ids, with the
\* same title and with different titles.
TwinCatalogs ==
  { << [SampleBooks[2] EXCEPT !.id = 1], SampleBooks[2] >>,
    << [SampleBooks[2] EXCEPT !.id = 1, !.title = SampleBooks[1].title],
       SampleBooks[2] >> }

\* The first 1, 2 and 3 sample books.
PrefixCatalogs == { SubSeq(SampleBooks, 1, n) : n \in 1..Len(SampleBooks) }

CheckCatalogs ==
  YearCatalogs \cup PageCatalogs \cup AttributeCatalogs \cup TwinCatalogs
    \cup PrefixCatalogs

\* Titles in another case, a proper prefix of a title, two titles with
\* the wildcards of a LIKE pattern, and the empty string.
CheckTitles == { <<"n", "a", "n", "a">>, <<"D", "U", "N", "E">>,
                 <<"N", "a", "n">>, <<"D", "_", "n", "e">>, <<"%">>, <<>> }

InitCheck == \E catalog \in CheckCatalogs : InitWith(catalog)

NextCheck == GuessStep("h1", CheckTitles)

SpecCheck == InitCheck /\ [][NextCheck]_vars

\* A handler runs to its response before the next request is dispatched.
othersIdle(h) == \A o \in Handlers \ {h} : pc[o] = "idle"

Next ==
  \E h \in Handlers :
    /\ othersIdle(h)
    /\ (GuessStep(h, GuessTitles) \/ GameStep(h))

Spec == Init /\ [][Next]_vars

NextConc == \E h \in Handlers : GuessStep(h, ConcTitles)

\* ------------------------------------------- the catalog loaded from CSV
\* The MemStorage whose constructor starts loadBooksFromCsv and returns:
\* the catalog is empty until the file has been read, and requests are
\* served meanwhile.

\* loadBooksFromCsv has read the file: the books are set. The callback
\* runs between requests, a handler on MemStorage has no await it could
\* run in.
LoadBooksFromCsv ==
  /\ books = <<>>
  /\ \A h \in Handlers : pc[h] = "idle"
  /\ books' = SampleBooks
  /\ UNCHANGED <<gameStates, heap, handlerVars, clientVars, statsVars>>

\* What is thrown where the daily book of an empty catalog is used:
\* books[NaN] is undefined, and dailyBook.publicationYear (books[index].title
\* in the build that logs the title) reads a property of undefined.
TypeErrorThrown == [thrown |-> "TypeError"]

\* createGameState throws in the guess route.
GuessCreateThrow(h) ==
  /\ pc[h] = "creating"
  /\ dailyBook[h] = 0
  /\ response' = [response EXCEPT ![h] = TypeErrorThrown]
  /\ pc' = [pc EXCEPT ![h] = "guessThrown"]
  /\ UNCHANGED <<books, gameStates, heap, bookTitle, gameState, dailyBook,
                 guessResult>>

\* The catch of the guess route answers 400 "Invalid request".
GuessCatch(h) ==
  /\ pc[h] = "guessThrown"
  /\ response' = [response EXCEPT ![h] =
                    [status |-> 400, error |-> "Invalid request"]]
  /\ pc' = [pc EXCEPT ![h] = "sent"]
  /\ UNCHANGED <<books, gameStates, heap, bookTitle, gameState, dailyBook,
                 guessResult>>

\* createGameState throws in GET /api/game.
GameCreateThrow(h) ==
  /\ pc[h] = "readCreating"
  /\ dailyBook[h] = 0
  /\ response' = [response EXCEPT ![h] = TypeErrorThrown]
  /\ pc' = [pc EXCEPT ![h] = "gameThrown"]
  /\ UNCHANGED <<books, gameStates, heap, bookTitle, gameState, dailyBook,
                 guessResult>>

\* GET /api/game has no try: the handler's promise is rejected and no
\* response is sent.
GameUnhandled(h) ==
  /\ pc[h] = "gameThrown"
  /\ pc' = [pc EXCEPT ![h] = "idle"]
  /\ gameState' = [gameState EXCEPT ![h] = 0]
  /\ dailyBook' = [dailyBook EXCEPT ![h] = 0]
  /\ response' = [response EXCEPT ![h] = Null]
  /\ UNCHANGED <<books, gameStates, heap, bookTitle, guessResult>>

\* One step of a request that fails on the empty catalog.
ThrowStep(h) ==
  /\ UNCHANGED <<clientVars, statsVars, statsHandlerVars, fallbackVars>>
  /\ \/ GuessCreateThrow(h)
     \/ GuessCatch(h)
     \/ GameCreateThrow(h)
     \/ GameUnhandled(h)

InitLoading == InitWith(<<>>)

NextLoading ==
  \/ LoadBooksFromCsv
  \/ \E h \in Handlers :
       /\ othersIdle(h)
       /\ (GuessStep(h, GuessTitles) \/ GameStep(h) \/ ThrowStep(h))

SpecLoading == InitLoading /\ [][NextLoading]_vars

SpecConc == Init /\ [][NextConc]_vars

\* ---------------------------------------- the build on FallbackStorage
\* With SUPABASE_KEY set the routes run on
\* activeStorage = new FallbackStorage(supabaseStorage, storage): every
\* storage operation goes through withFallback. The primary storage is
\* the Supabase database (supabaseGameState, supabaseGameStats and its
\* books table), the fallback storage is the MemStorage (books,
\* gameStates, heap, gameStats). A session object a Supabase method
\* returns is a fresh object parsed from the row; it lives in the heap
\* while the handler holds it.

\* The rows of the books table of Supabase: the catalog of the CSV file.
SupabaseBooks == SampleBooks

\* The titles guessed in this build: the book Supabase selects for Today
\* and the book MemStorage selects for Today.
FallbackTitles == { <<"D", "u", "n", "e">>, <<"U", "b", "i", "k">> }

\* The body of its statistics requests: a game won at the first guess.
FallbackStatsBodies == { <<TRUE, 1>> }

\* Mutant of withFallback: the catch does not set usesFallback.
withFallback_flagNotSet(uses, primaryThrows) ==
  IF ~uses /\ ~primaryThrows
  THEN [answeredBy |-> "primary", usesFallback |-> uses]
  ELSE [answeredBy |-> "fallback", usesFallback |-> uses]

\* FallbackStorage.withFallback: the storage whose result is returned
\* and the flag afterwards, given the flag and whether primaryFn throws.
withFallback(uses, primaryThrows) ==
  IF ~uses /\ ~primaryThrows
  THEN [answeredBy |-> "primary", usesFallback |-> uses]
  ELSE [answeredBy |-> "fallback", usesFallback |-> TRUE]

answeredBy(primaryThrows) == withFallback(usesFallback, primaryThrows).answeredBy

\* What one call of withFallback does to the FallbackStorage: primaryFn
\* is invoked unless the flag is set, and the catch logs and sets it.
WithFallback(primaryThrows) ==
  /\ usesFallback' = withFallback(usesFallback, primaryThrows).usesFallback
  /\ primaryCalled' = IF usesFallback THEN primaryCalled ELSE ~primaryCalled
  /\ primaryErrorLogged' =
       (primaryErrorLogged \/ (~usesFallback /\ primaryThrows))
  /\ UNCHANGED primaryFails

\* SupabaseStorage.createGameState: the attributes of the row it inserts.
supabaseAttributes(b) == <<
  [name |-> "Publication Year", value |-> b.publicationYear,
   icon |-> "calendar", revealed |-> FALSE, type |-> "date"],
  [name |-> "Genre", value |-> b.genre,
   icon |-> "bookType", revealed |-> FALSE, type |-> "text"],
  [name |-> "Author's Country", value |-> b.authorsCountry,
   icon |-> "globe", revealed |-> FALSE, type |-> "text"],
  [name |-> "Pages", value |-> b.pages,
   icon |-> "bookOpen", revealed |-> FALSE, type |-> "number"],
  [name |-> "Author", value |-> b.author,
   icon |-> "user", revealed |-> FALSE, type |-> "text"],
  [name |-> "Original Language", value |-> b.originalLanguage,
   icon |-> "languages", revealed |-> FALSE, type |-> "text"],
  [name |-> "Historical Period", value |-> b.historicalPeriod,
   icon |-> "history", revealed |-> FALSE, type |-> "text"] >>

\* SupabaseStorage.createGameState: the session it inserts and returns.
supabaseCreateGameState(b, date) ==
  [id |-> <<"game", date>>,
   date |-> date,
   dailyBookId |-> b.id,
   remainingAttempts |-> MaxAttempts,
   guesses |-> <<>>,
   revealedAttributes |-> supabaseAttributes(b),
   gameStatus |-> "active"]

\* The place of the next object in the heap.
newObject == Min({o \in ObjIds : heap[o] = Null})

\* getGameState(today) of the guess route. The primary storage never
\* throws here: an error of Supabase makes it return undefined.
ActiveGuessLoad(h, t) ==
  /\ pc[h] = "idle"
  /\ Len(t) >= 1
  /\ bookTitle' = [bookTitle EXCEPT ![h] = t]
  /\ WithFallback(FALSE)
  /\ IF answeredBy(FALSE) = "fallback"
     THEN /\ gameState' = [gameState EXCEPT ![h] = gameStates]
          /\ UNCHANGED heap
     ELSE IF primaryFails \/ supabaseGameState = Null
     THEN /\ gameState' = [gameState EXCEPT ![h] = 0]
          /\ UNCHANGED heap
     ELSE /\ heap' = [heap EXCEPT ![newObject] = supabaseGameState]
          /\ gameState' = [gameState EXCEPT ![h] = newObject]
  /\ pc' = [pc EXCEPT ![h] = "loaded"]
  /\ UNCHANGED <<books, gameStates, dailyBook, guessResult, response,
                 supabaseGameState, supabaseGameStats>>

\* createGameState(today). The primary storage throws when Supabase fails
\* (getDailyBook and the insert both do) and when a row with the id
\* game-<date> is there already.
ActiveGuessCreate(h) ==
  /\ pc[h] = "loaded"
  /\ gameState[h] = 0
  /\ LET primaryThrows == primaryFails \/ supabaseGameState # Null
     IN  /\ WithFallback(primaryThrows)
         /\ IF answeredBy(primaryThrows) = "primary"
            THEN LET row == supabaseCreateGameState(
                              bookOf(SupabaseBooks,
                                     supabaseGetDailyBook(SupabaseBooks, Today)),
                              Today)
                 IN  /\ supabaseGameState' = row
                     /\ heap' = [heap EXCEPT ![newObject] = row]
                     /\ UNCHANGED gameStates
            ELSE /\ heap' = [heap EXCEPT ![newObject] =
                       createGameState(
                         bookOf(books, getDailyBook(books, Today)), Today)]
                 /\ gameStates' = newObject
                 /\ UNCHANGED supabaseGameState
  /\ gameState' = [gameState EXCEPT ![h] = newObject]
  /\ UNCHANGED <<books, pc, bookTitle, dailyBook, guessResult, response,
                 supabaseGameStats>>

\* checkGuess: getDailyBook(date). The primary storage throws when
\* Supabase fails.
ActiveCheckBegin(h) ==
  /\ pc[h] = "loaded"
  /\ gameState[h] # 0
  /\ heap[gameState[h]].gameStatus = "active"
  /\ WithFallback(primaryFails)
  /\ dailyBook' = [dailyBook EXCEPT ![h] =
       IF answeredBy(primaryFails) = "primary"
       THEN supabaseGetDailyBook(SupabaseBooks, Today)
       ELSE getDailyBook(books, Today)]
  /\ pc' = [pc EXCEPT ![h] = "lookup"]
  /\ UNCHANGED <<books, gameStates, heap, bookTitle, gameState, guessResult,
                 response, supabaseGameState, supabaseGameStats>>

\* checkGuess: getBookByTitle(bookTitle), and the scoring. The primary
\* storage returns undefined when Supabase fails.
ActiveLookup(h) ==
  /\ pc[h] = "lookup"
  /\ WithFallback(FALSE)
  /\ \E guessed \in
          IF answeredBy(FALSE) = "fallback"
          THEN {getBookByTitle(books, bookTitle[h])}
          ELSE IF primaryFails THEN {0}
          ELSE supabaseGetBookByTitle(SupabaseBooks, bookTitle[h]) :
       guessResult' = [guessResult EXCEPT ![h] =
         IF guessed = 0 THEN NotFoundResult
         ELSE checkGuess(bookOf(books, guessed),
                         bookOf(books, dailyBook[h]))]
  /\ pc' = [pc EXCEPT ![h] = "scored"]
  /\ UNCHANGED <<books, gameStates, heap, bookTitle, gameState, dailyBook,
                 response, supabaseGameState, supabaseGameStats>>

\* "Update game state" and updateGameState(gameState). The primary
\* storage throws when Supabase fails and when no row has the id; the
\* fallback storage puts the handler's object into its map.
ActiveGuessApply(h) ==
  /\ pc[h] = "scored"
  /\ ~isError(guessResult[h])
  /\ LET updated == applyGuess(heap[gameState[h]], guessResult[h])
         primaryThrows == primaryFails \/ supabaseGameState = Null
     IN  /\ heap' = [heap EXCEPT ![gameState[h]] = updated]
         /\ WithFallback(primaryThrows)
         /\ IF answeredBy(primaryThrows) = "primary"
            THEN /\ supabaseGameState' = updated
                 /\ UNCHANGED gameStates
            ELSE /\ gameStates' = gameState[h]
                 /\ UNCHANGED supabaseGameState
  /\ pc' = [pc EXCEPT ![h] = "saved"]
  /\ UNCHANGED <<books, bookTitle, gameState, dailyBook, guessResult,
                 response, supabaseGameStats>>

\* The game is over: getBook(gameState.dailyBookId). The primary storage
\* returns undefined when Supabase fails.
ActiveRespondOver(h) ==
  /\ pc[h] = "saved"
  /\ heap[gameState[h]].gameStatus # "active"
  /\ WithFallback(FALSE)
  /\ dailyBook' = [dailyBook EXCEPT ![h] =
       IF answeredBy(FALSE) = "fallback"
       THEN getBook(books, heap[gameState[h]].dailyBookId)
       ELSE IF primaryFails THEN 0
       ELSE getBook(SupabaseBooks, heap[gameState[h]].dailyBookId)]
  /\ pc' = [pc EXCEPT ![h] = "disclose"]
  /\ UNCHANGED <<books, gameStates, heap, bookTitle, gameState, guessResult,
                 response, supabaseGameState, supabaseGameStats>>

\* The response has gone out: the locals are dropped, and with them the
\* session object unless the MemStorage holds it.
ActiveFinish(h) ==
  /\ pc[h] = "sent"
  /\ heap' = IF gameState[h] # 0 /\ gameState[h] # gameStates
             THEN [heap EXCEPT ![gameState[h]] = Null]
             ELSE heap
  /\ pc' = [pc EXCEPT ![h] = "idle"]
  /\ bookTitle' = [bookTitle EXCEPT ![h] = <<>>]
  /\ gameState' = [gameState EXCEPT ![h] = 0]
  /\ dailyBook' = [dailyBook EXCEPT ![h] = 0]
  /\ guessResult' = [guessResult EXCEPT ![h] = Null]
  /\ response' = [response EXCEPT ![h] = Null]
  /\ UNCHANGED <<books, gameStates, fallbackVars>>

\* One step of POST /api/game/guess on activeStorage.
ActiveGuessStep(h) ==
  /\ UNCHANGED <<clientVars, statsVars, statsHandlerVars>>
  /\ \/ \E t \in FallbackTitles : ActiveGuessLoad(h, t)
     \/ ActiveGuessCreate(h)
     \/ ActiveCheckBegin(h)
     \/ ActiveLookup(h)
     \/ ActiveGuessApply(h)
     \/ ActiveRespondOver(h)
     \/ ActiveFinish(h)
     \/ GuessRejectOver(h) /\ UNCHANGED fallbackVars
     \/ GuessNotFound(h) /\ UNCHANGED fallbackVars
     \/ GuessRespondActive(h) /\ UNCHANGED fallbackVars
     \/ GuessDisclose(h) /\ UNCHANGED fallbackVars

\* POST /api/stats/update on activeStorage: getGameStats(userId) and
\* "Get or create stats". The primary storage returns undefined when
\* Supabase fails.
ActiveStatsLoad(s, body) ==
  /\ statsPc[s] = "idle"
  /\ validStatsBody(body[1], body[2])
  /\ WithFallback(FALSE)
  /\ LET found == IF answeredBy(FALSE) = "fallback" THEN gameStats
                  ELSE IF primaryFails THEN Null
                  ELSE supabaseGameStats
     IN  /\ gamesPlayedOf(found) < MaxGamesPlayed
         /\ loadedStats' = [loadedStats EXCEPT ![s] =
              [kind |-> "own",
               value |-> IF found = Null THEN emptyStats ELSE found]]
  /\ statsBody' = [statsBody EXCEPT ![s] = body]
  /\ statsPc' = [statsPc EXCEPT ![s] = "loaded"]
  /\ UNCHANGED <<statsVars, pendingSave, supabaseGameState,
                 supabaseGameStats>>

\* "Update stats" and updateGameStats. The primary storage throws when
\* Supabase fails.
ActiveStatsSave(s) ==
  /\ statsPc[s] = "loaded"
  /\ LET insertStats == statsUpdate(loadedStats[s].value,
                                    statsBody[s][1], statsBody[s][2])
     IN  /\ WithFallback(primaryFails)
         /\ IF answeredBy(primaryFails) = "primary"
            THEN /\ supabaseGameStats' =
                      updateGameStats(supabaseGameStats, insertStats, 1)
                 /\ UNCHANGED statsVars
            ELSE /\ gameStats' =
                      updateGameStats(gameStats, insertStats, statsCurrentId)
                 /\ statsCurrentId' = statsCurrentId + 1
                 /\ UNCHANGED supabaseGameStats
  /\ loadedStats' = [loadedStats EXCEPT ![s] = Null]
  /\ statsPc' = [statsPc EXCEPT ![s] = "sent"]
  /\ UNCHANGED <<statsBody, pendingSave, supabaseGameState>>

\* One step of POST /api/stats/update on activeStorage.
ActiveStatsStep(s) ==
  /\ UNCHANGED <<serverVars, pc, bookTitle, gameState, dailyBook,
                 guessResult, response, clientVars>>
  /\ \/ \E body \in FallbackStatsBodies : ActiveStatsLoad(s, body)
     \/ ActiveStatsSave(s)
     \/ StatsFinish(s) /\ UNCHANGED fallbackVars

\* Supabase starts to answer with errors.
PrimaryBreaks ==
  /\ ~usesFallback
  /\ ~primaryFails
  /\ primaryFails' = TRUE
  /\ UNCHANGED <<serverVars, pc, bookTitle, gameState, dailyBook,
                 guessResult, response, statsHandlerVars, clientVars,
                 statsVars, usesFallback, primaryCalled, primaryErrorLogged,
                 supabaseGameState, supabaseGameStats>>

\* Supabase answers again.
PrimaryRecovers ==
  /\ ~usesFallback
  /\ primaryFails
  /\ primaryFails' = FALSE
  /\ UNCHANGED <<serverVars, pc, bookTitle, gameState, dailyBook,
                 guessResult, response, statsHandlerVars, clientVars,
                 statsVars, usesFallback, primaryCalled, primaryErrorLogged,
                 supabaseGameState, supabaseGameStats>>

\* The requests of one player on the FallbackStorage build, one at a time.
NextFallback ==
  \/ statsPc["s1"] = "idle" /\ ActiveGuessStep("h1")
  \/ pc["h1"] = "idle" /\ ActiveStatsStep("s1")
  \/ PrimaryBreaks
  \/ PrimaryRecovers

SpecFallback == Init /\ [][NextFallback]_vars

\* ------------------------------------- the client on the session route
\* use-game.tsx posting to the guess route of routes.ts: the route
\* applies the guess to the stored session and answers the guess result,
\* and onSuccess applies the same result to the tab's own copy.

\* makeGuess with a title of the catalog while both sessions are active:
\* the handler runs to its response, then onSuccess runs.
MirroredGuess(t, title) ==
  /\ canSubmit(t)
  /\ gameStates # 0
  /\ heap[gameStates].gameStatus = "active"
  /\ Len(title) >= 1
  /\ getBookByTitle(books, title) # 0
  /\ getDailyBook(books, Today) # 0
  /\ LET guess == checkGuess(bookOf(books, getBookByTitle(books, title)),
                             bookOf(books, getDailyBook(books, Today)))
         saved == applyGuess(heap[gameStates], guess)
         updatedState == onSuccess(localGameState[t], guess)
     IN  /\ heap' = [heap EXCEPT ![gameStates] = saved]
         /\ localGameState' = [localGameState EXCEPT ![t] = updatedState]
         /\ lsGameState' = updatedState
         /\ modalOpen' = [modalOpen EXCEPT ![t] =
                            modalOpen[t] \/ terminal(updatedState)]
         /\ correctBook' = [correctBook EXCEPT ![t] =
                              IF saved.gameStatus # "active"
                              THEN getBook(books, saved.dailyBookId)
                              ELSE 0]
  /\ guessStatus' = [guessStatus EXCEPT ![t] = 200]
  /\ UNCHANGED <<books, gameStates, handlerVars, hasUpdatedStats,
                 lsStatsUpdated, statsVars>>

\* One tab playing against the session route.
NextMirror ==
  \/ PageLoad("t1")
  \/ \E title \in ResultTitles : ClientGuessNotFound("t1", title)
  \/ \E title \in ResultTitles : MirroredGuess("t1", title)

SpecMirror == Init /\ [][NextMirror]_vars

\* ---------------------------------------------------------- the session

\* The session stored for Today, where one exists.
hasSession == gameStates # 0

session == heap[gameStates]

allocated == {o \in ObjIds : heap[o] # Null}

revealedNames(attrs) ==
  {attrs[i].name : i \in {j \in 1..Len(attrs) : attrs[j].revealed}}

\* The step by which handler h accepts its guess (GuessApply).
accepts(h) == pc[h] = "scored" /\ pc'[h] = "saved"

\* The submitted title of an in-flight request resolves to no book.
unresolvable(h) ==
  /\ pc[h] # "idle"
  /\ Len(bookTitle[h]) >= 1
  /\ getBookByTitle(books, bookTitle[h]) = 0

\* ---------------------------------------------------------------- claims

\* C1: in every reachable state, the number of recorded guesses plus
\* remainingAttempts of every session is 8.
C1_GuessesPlusRemaining ==
  \A o \in allocated :
    Len(heap[o].guesses) + heap[o].remainingAttempts = MaxAttempts

\* C1 witness: guesses were accepted and a later one was rejected with 404.
C1_Witness ==
  /\ hasSession
  /\ Len(session.guesses) >= 2
  /\ \E h \in Handlers : pc[h] = "sent" /\ response[h].status = 404

\* C3: a request whose title resolves to no book is answered 404 with the
\* not-found error, and no step of it changes an existing session.
C3_NotFoundKeepsSession ==
  [][\A h \in Handlers :
       (unresolvable(h) /\ hasSession /\ pc'[h] # pc[h]) =>
          /\ heap' = heap
          /\ gameStates' = gameStates
          /\ (pc[h] = "scored" =>
                /\ response'[h].status = 404
                /\ response'[h].error = "Book not found in database")]_vars

\* C3 witness: a 404 has been sent for a session that has guesses already.
C3_Witness ==
  /\ hasSession
  /\ Len(session.guesses) >= 1
  /\ session.gameStatus = "active"
  /\ \E h \in Handlers :
       /\ pc[h] = "sent"
       /\ response[h].status = 404
       /\ getBookByTitle(books, bookTitle[h]) = 0

\* C4: accepting, on an active session, a guess whose resolved book is the
\* session's daily book sets gameStatus to won, also on the last attempt.
C4_CorrectGuessWins ==
  [][\A h \in Handlers :
       (/\ accepts(h)
        /\ heap[gameState[h]].gameStatus = "active"
        /\ getBookByTitle(books, bookTitle[h]) = heap[gameState[h]].dailyBookId)
       => heap'[gameState[h]].gameStatus = "won"]_vars

\* C4 witness: the session was won with the 8th attempt.
C4_Witness ==
  /\ hasSession
  /\ session.gameStatus = "won"
  /\ session.remainingAttempts = 0
  /\ Len(session.guesses) = MaxAttempts

\* C5: accepting an incorrect guess on an active session sets gameStatus
\* to lost exactly when remainingAttempts is 0 afterwards, else it stays
\* active.
C5_IncorrectGuessStatus ==
  [][\A h \in Handlers :
       (/\ accepts(h)
        /\ heap[gameState[h]].gameStatus = "active"
        /\ ~guessResult[h].isCorrect)
       => /\ heap'[gameState[h]].remainingAttempts =
               heap[gameState[h]].remainingAttempts - 1
          /\ heap'[gameState[h]].gameStatus =
               IF heap'[gameState[h]].remainingAttempts = 0
               THEN "lost" ELSE "active"]_vars

\* C5 witness: the session was lost with the 8th incorrect guess.
C5_Witness ==
  /\ hasSession
  /\ session.gameStatus = "lost"
  /\ session.remainingAttempts = 0
  /\ \A i \in 1..Len(session.guesses) : ~session.guesses[i].isCorrect

\* C7: after n accepted guesses the revealed attributes are exactly the
\* first min(n, 7) names of the priority order.
PriorityPrefix(n) ==
  {orderPriority[i] : i \in 1..(IF n < Len(orderPriority) THEN n
                                 ELSE Len(orderPriority))}

C7_RevealPriorityOrder ==
  \A o \in allocated :
    /\ Len(heap[o].revealedAttributes) = 7
    /\ revealedNames(heap[o].revealedAttributes) =
         PriorityPrefix(Len(heap[o].guesses))

\* C7 witness: 7 incorrect guesses on a fresh session, all 7 revealed.
C7_Witness ==
  /\ hasSession
  /\ Len(session.guesses) = 7
  /\ session.gameStatus = "active"
  /\ \A i \in 1..7 : session.revealedAttributes[i].revealed

C6_Serializable ==
  hasSession =>
    /\ session.remainingAttempts >= 0
    /\ Len(session.guesses) + session.remainingAttempts = MaxAttempts
    /\ \A i \in 1..(Len(session.guesses) - 1) : ~session.guesses[i].isCorrect
    /\ \A h \in Handlers :
         pc[h] \in {"saved", "disclose"} =>
           \E i \in 1..Len(session.guesses) :
              session.guesses[i] = guessResult[h]

\* ------------------------------------- claims on the client-side session

\* The step by which tab t applies an accepted guess (onSuccess).
applies(t) ==
  /\ localGameState[t] # Null
  /\ guessStatus'[t] = 200
  /\ localGameState'[t] # localGameState[t]

\* The attributes whose revealed flag a step turns from false to true.
flipped(old, new) ==
  {i \in 1..Len(old) : ~old[i].revealed /\ new[i].revealed}

\* C2: once the persisted session is won or lost, a later guess submission
\* is not accepted (no 200 answer is applied) and the session keeps its
\* remainingAttempts, guesses, revealedAttributes and gameStatus.
C2_TerminalSessionRejects ==
  [][(lsGameState # Null /\ terminal(lsGameState)) =>
        /\ lsGameState' = lsGameState
        /\ \A t \in Tabs : ~applies(t)]_vars

\* C8: an accepted guess flips the revealed flag of exactly one attribute,
\* or of none when all 7 are revealed already.
C8_OneRevealPerGuess ==
  [][\A t \in Tabs :
       applies(t) =>
         Cardinality(flipped(localGameState[t].revealedAttributes,
                             localGameState'[t].revealedAttributes)) =
           IF unrevealedOf(localGameState[t].revealedAttributes) = <<>>
           THEN 0 ELSE 1]_vars

\* C10: once the statistics have been updated for today's terminal
\* session, nothing updates them again: not closing the modal, not the
\* updateGameStats event, not a call of the endpoint, not a reload.
C10_StatsOncePerSession ==
  [][(lsGameState # Null /\ terminal(lsGameState) /\ lsStatsUpdated) =>
        gameStats' = gameStats]_vars

\* ------------------------------------------- claims on the statistics

\* A counter of the player's stats; 0 while none are stored.
counter(st, field) == IF st = Null THEN 0 ELSE st[field]

\* Counter i (1..8) of the guess distribution; 0 where the array is short.
distCounter(st, i) ==
  IF st = Null THEN 0
  ELSE IF i > Len(st.guessDistribution) THEN 0
  ELSE st.guessDistribution[i]

RECURSIVE distSum(_, _)
distSum(st, n) == IF n = 0 THEN 0 ELSE distCounter(st, n) + distSum(st, n - 1)

\* No statistics request is between its load and its save.
statsQuiet == \A s \in StatsHandlers : statsPc[s] \in {"idle", "sent"}

\* The step by which handler s computes the update of a valid request.
computes(s) == statsPc[s] = "loaded" /\ statsPc'[s] = "saving"

\* The step by which handler s saves.
saves(s) == statsPc[s] = "saving" /\ statsPc'[s] = "sent"

\* The record stored by a save is the one the handler computed.
savedAsComputed(s) ==
  /\ gameStats'.gamesPlayed = pendingSave[s].insertStats.gamesPlayed
  /\ gameStats'.gamesWon = pendingSave[s].insertStats.gamesWon
  /\ gameStats'.currentStreak = pendingSave[s].insertStats.currentStreak
  /\ gameStats'.maxStreak = pendingSave[s].insertStats.maxStreak
  /\ gameStats'.guessDistribution = pendingSave[s].insertStats.guessDistribution

\* C11: two statistics updates interleaved between load and save have the
\* effect of one after the other: when none is in flight, gamesPlayed is
\* the number of updates made (one id is drawn per update), every win is
\* in exactly one distribution counter, and the streak is no longer than
\* the wins.
C11_StatsSerializable ==
  statsQuiet =>
    /\ counter(gameStats, "gamesPlayed") = statsCurrentId - 1
    /\ distSum(gameStats, 8) = counter(gameStats, "gamesWon")
    /\ counter(gameStats, "currentStreak") <= counter(gameStats, "gamesWon")
    /\ counter(gameStats, "gamesWon") <= counter(gameStats, "gamesPlayed")

\* C12: an update for a won game with k attempts adds 1 to gamesPlayed,
\* gamesWon and currentStreak, makes maxStreak the maximum of its old
\* value and the new currentStreak, adds 1 to distribution[k-1] and
\* leaves the other 7 counters; the record is saved as computed.
C12_WonUpdate ==
  [][\A s \in StatsHandlers :
       /\ (computes(s) /\ statsBody[s][1]) =>
            LET new == pendingSave'[s].insertStats
                k == statsBody[s][2]
            IN  /\ new.gamesPlayed = counter(gameStats, "gamesPlayed") + 1
                /\ new.gamesWon = counter(gameStats, "gamesWon") + 1
                /\ new.currentStreak = counter(gameStats, "currentStreak") + 1
                /\ new.maxStreak =
                     IF counter(gameStats, "maxStreak") > new.currentStreak
                     THEN counter(gameStats, "maxStreak")
                     ELSE new.currentStreak
                /\ Len(new.guessDistribution) = 8
                /\ \A i \in 1..8 :
                     new.guessDistribution[i] =
                       distCounter(gameStats, i) + (IF i = k THEN 1 ELSE 0)
       /\ (saves(s) /\ statsBody[s][1]) => savedAsComputed(s)]_vars

\* C12 witness: a win, a loss and a win with 8 attempts have been saved.
C12_Witness ==
  /\ statsQuiet
  /\ gameStats # Null
  /\ gameStats.gamesPlayed = 3
  /\ gameStats.gamesWon = 2
  /\ gameStats.currentStreak = 1
  /\ gameStats.maxStreak = 1
  /\ gameStats.guessDistribution[8] = 1

\* C13: an update for a lost game adds 1 to gamesPlayed, sets
\* currentStreak to 0 and leaves gamesWon, maxStreak and all 8
\* distribution counters; the record is saved as computed.
C13_LostUpdate ==
  [][\A s \in StatsHandlers :
       /\ (computes(s) /\ ~statsBody[s][1]) =>
            LET new == pendingSave'[s].insertStats
            IN  /\ new.gamesPlayed = counter(gameStats, "gamesPlayed") + 1
                /\ new.currentStreak = 0
                /\ new.gamesWon = counter(gameStats, "gamesWon")
                /\ new.maxStreak = counter(gameStats, "maxStreak")
                /\ \A i \in 1..8 :
                     distCounter(new, i) = distCounter(gameStats, i)
       /\ (saves(s) /\ ~statsBody[s][1]) => savedAsComputed(s)]_vars

\* C13 witness: a loss has been saved after two wins in a row.
C13_Witness ==
  /\ gameStats # Null
  /\ gameStats.gamesPlayed = 3
  /\ gameStats.gamesWon = 2
  /\ gameStats.currentStreak = 0
  /\ gameStats.maxStreak = 2
  /\ \E s \in StatsHandlers : statsPc[s] = "sent" /\ ~statsBody[s][1]

\* ---------------------------------------- claims on the server responses

\* Handler h has sent a response that carries a session the response
\* shows as active.
sentActive(h) ==
  /\ pc[h] = "sent"
  /\ "gameState" \in DOMAIN response[h]
  /\ response[h].gameState.gameStatus = "active"

\* C14: no response of the game-state route or of the guess route for an
\* active session carries the session's dailyBookId (nor the book).
C14_NoDailyBookIdWhileActive ==
  \A h \in Handlers :
    sentActive(h) =>
      /\ "dailyBookId" \notin DOMAIN response[h].gameState
      /\ "dailyBookId" \notin DOMAIN response[h]
      /\ "dailyBook" \notin DOMAIN response[h]

\* C14 witness: the game-state route has answered for an active session
\* with guesses, and the guess route has answered for an active session.
C14_Witness ==
  \E h \in Handlers :
    /\ sentActive(h)
    /\ "guessResult" \notin DOMAIN response[h]
    /\ Len(response[h].gameState.guesses) >= 1

\* The session gs with the values of its unrevealed attributes taken from
\* the book b: a session that differs from gs in those values only.
withHiddenValuesOf(gs, b) ==
  [gs EXCEPT !.revealedAttributes =
     [i \in 1..Len(gs.revealedAttributes) |->
        IF gs.revealedAttributes[i].revealed
        THEN gs.revealedAttributes[i]
        ELSE [gs.revealedAttributes[i] EXCEPT
                !.value = initialAttributes(b)[i].value]]]

\* C15: the response for an active session is the response the route
\* gives for every session that differs from it only in the values of
\* unrevealed attributes.
C15_UnrevealedValuesHidden ==
  \A h \in Handlers :
    sentActive(h) =>
      \A i \in 1..Len(books) :
        safeGameState(withHiddenValuesOf(heap[gameState[h]], books[i])) =
          response[h].gameState

\* ------------------------------------ claims on the disclosed book, reset

\* C16: the response to an accepted guess carries the day's book exactly
\* when the session is won or lost after that guess.
C16_BookDisclosedIffTerminal ==
  [][\A t \in Tabs :
       applies(t) =>
         ((correctBook'[t] # 0) <=> terminal(localGameState'[t]))]_vars

\* s2 keeps the session s1: same date and book, the guesses of s1 with
\* guesses appended at the end, and a won or lost status left alone.
continues(s1, s2) ==
  /\ s2.date = s1.date
  /\ s2.dailyBookId = s1.dailyBookId
  /\ Len(s2.guesses) >= Len(s1.guesses)
  /\ SubSeq(s2.guesses, 1, Len(s1.guesses)) = s1.guesses
  /\ terminal(s1) => s2.gameStatus = s1.gameStatus

\* C17: once the session of the date exists, every operation keeps it:
\* the stored session and the one the client persists are never replaced
\* or reset.
C17_SessionNeverReset ==
  [][/\ hasSession => (hasSession' /\ continues(session, session'))
     /\ lsGameState # Null =>
          (lsGameState' # Null /\ continues(lsGameState, lsGameState'))]_vars

\* ------------------------------------------ claims on the session's shape

\* The sessions of a state: the objects of the storage and, in the
\* client-side build, the states of the tabs and the persisted one.
sessionsNow ==
  {heap[o] : o \in allocated}
    \cup {localGameState[t] : t \in {u \in Tabs : localGameState[u] # Null}}
    \cup (IF lsGameState # Null THEN {lsGameState} ELSE {})

\* The 7 tracked attribute names.
trackedNames ==
  {"Publication Year", "Genre", "Author's Country", "Pages", "Author",
   "Original Language", "Historical Period"}

\* C18: remainingAttempts is an integer from 0 to 8 and never increases
\* from one state to the next, and gameStatus is active, won or lost.
C18_AttemptsBounded ==
  /\ [](\A gs \in sessionsNow :
          /\ gs.remainingAttempts \in 0..MaxAttempts
          /\ gs.gameStatus \in {"active", "won", "lost"})
  /\ [][/\ \A o \in allocated :
            heap'[o] # Null =>
              heap'[o].remainingAttempts <= heap[o].remainingAttempts
        /\ (lsGameState # Null /\ lsGameState' # Null) =>
              lsGameState'.remainingAttempts <= lsGameState.remainingAttempts
       ]_vars

\* A session as it is on creation.
fresh(gs) ==
  /\ gs.remainingAttempts = 8
  /\ gs.guesses = <<>>
  /\ gs.gameStatus = "active"
  /\ Len(gs.revealedAttributes) = 7
  /\ {gs.revealedAttributes[i].name : i \in 1..7} = trackedNames
  /\ \A i \in 1..7 : ~gs.revealedAttributes[i].revealed

\* C19: a session is created with 8 attempts, no guesses, status active
\* and 7 attributes, one per tracked name, none revealed; afterwards the
\* number and the names of its attributes stay.
C19_FreshSession ==
  [][/\ \A o \in ObjIds :
          (heap[o] = Null /\ heap'[o] # Null) => fresh(heap'[o])
     /\ \A o \in allocated :
          heap'[o] # Null =>
            /\ Len(heap'[o].revealedAttributes) = 7
            /\ \A i \in 1..7 :
                 heap'[o].revealedAttributes[i].name =
                   heap[o].revealedAttributes[i].name
     /\ \A t \in Tabs :
          (lsGameState = Null /\ localGameState'[t] # localGameState[t]) =>
             fresh(localGameState'[t])
     /\ (lsGameState # Null /\ lsGameState' # Null) =>
          /\ Len(lsGameState'.revealedAttributes) = 7
          /\ \A i \in 1..7 :
               lsGameState'.revealedAttributes[i].name =
                 lsGameState.revealedAttributes[i].name]_vars

\* C19 witness: the session created by the game-state route has taken 7
\* guesses and is read again.
C19_Witness ==
  /\ hasSession
  /\ Len(session.guesses) = 7
  /\ \E h \in Handlers : pc[h] = "read"

\* --------------------------------------------------- claims on checkGuess

\* Handler h holds the scored guess of a book of the catalog.
scored(h) == guessResult[h] # Null /\ ~isError(guessResult[h])

\* The publication year of the day's book handler h scores against.
dailyYearOf(h) == bookOf(books, getDailyBook(books, Today)).publicationYear

\* C20: the publicationYear status is correct iff the guessed and the
\* target year are equal, partial iff they differ by 1 to 10, and
\* incorrect iff they differ by more than 10.
C20_PublicationYearStatus ==
  \A h \in Handlers :
    scored(h) =>
      LET guessedYear == guessResult[h].attributes.publicationYear.value
          status == guessResult[h].attributes.publicationYear.status
          diff == Abs(guessedYear - dailyYearOf(h))
      IN  /\ (status = "correct") <=> (guessedYear = dailyYearOf(h))
          /\ (status = "partial") <=> (diff >= 1 /\ diff <= 10)
          /\ (status = "incorrect") <=> (diff > 10)

\* C20 witness: a guess 10 years after the target was scored partial.
C20_Witness ==
  \E h \in Handlers :
    /\ scored(h)
    /\ guessResult[h].attributes.publicationYear.value = dailyYearOf(h) + 10
    /\ guessResult[h].attributes.publicationYear.status = "partial"

\* The book of the catalog handler h's title resolved to.
guessedOf(h) == bookOf(books, getBookByTitle(books, bookTitle[h]))

\* The day's book handler h scores against.
dailyOf(h) == bookOf(books, getDailyBook(books, Today))

\* C21: for a positive target page count the pages status is correct iff
\* the page counts are equal, partial iff they differ by at most 15% of
\* the target's pages (20*diff <= 3*target), incorrect otherwise.
C21_PagesStatus ==
  \A h \in Handlers :
    (scored(h) /\ dailyOf(h).pages > 0) =>
      LET guessedPages == guessResult[h].attributes.pages.value
          status == guessResult[h].attributes.pages.status
          target == dailyOf(h).pages
          diff == Abs(guessedPages - target)
      IN  /\ (status = "correct") <=> (guessedPages = target)
          /\ (status = "partial") <=> (diff # 0 /\ 20 * diff <= 3 * target)
          /\ (status = "incorrect") <=> (20 * diff > 3 * target)

\* C21 witness: 17 pages against 20 (exactly 15%) were scored partial and
\* the session went on.
C21_Witness ==
  \E h \in Handlers :
    /\ scored(h)
    /\ dailyOf(h).pages = 20
    /\ guessResult[h].attributes.pages.value = 17
    /\ guessResult[h].attributes.pages.status = "partial"

\* C22: genre, authorsCountry, author, originalLanguage and
\* historicalPeriod are scored correct iff the guessed book's value is the
\* very string of the target (case included) and incorrect otherwise;
\* partial is never produced for them.
C22_ExactAttributes ==
  \A h \in Handlers :
    scored(h) =>
      \A f \in ExactFields :
        LET status == guessResult[h].attributes[f].status
        IN  /\ status \in {"correct", "incorrect"}
            /\ (status = "correct") <=> (guessedOf(h)[f] = dailyOf(h)[f])

\* C22 witness: a guessed genre that differs from the target's only in
\* case was scored incorrect.
C22_Witness ==
  \E h \in Handlers :
    /\ scored(h)
    /\ guessedOf(h).genre = "science fiction"
    /\ dailyOf(h).genre = "Science Fiction"
    /\ guessResult[h].attributes.genre.status = "incorrect"

\* C23: isCorrect is true exactly when the id of the resolved book is the
\* id of the day's book, whatever the titles and the attribute values.
C23_CorrectById ==
  \A h \in Handlers :
    scored(h) =>
      (guessResult[h].isCorrect <=>
         getBookByTitle(books, bookTitle[h]) = getDailyBook(books, Today))

\* Every attribute of handler h's guess was scored correct.
allCorrect(h) ==
  \A f \in DOMAIN guessResult[h].attributes :
    guessResult[h].attributes[f].status = "correct"

\* C23 witness: a book with the title and all attribute values of the
\* day's book and another id was scored not correct.
C23_Witness ==
  \E h \in Handlers :
    /\ scored(h)
    /\ guessedOf(h).title = dailyOf(h).title
    /\ allCorrect(h)
    /\ guessedOf(h).id # dailyOf(h).id
    /\ ~guessResult[h].isCorrect

\* C24: each value recorded in a guess is the resolved book's value of
\* that attribute, whatever the status.
C24_GuessedValues ==
  \A h \in Handlers :
    scored(h) =>
      \A f \in DOMAIN guessResult[h].attributes :
        guessResult[h].attributes[f].value = guessedOf(h)[f]

\* C24 witness: a guess scored incorrect on genre and pages records its
\* own genre and pages, which are not the target's.
C24_Witness ==
  \E h \in Handlers :
    /\ scored(h)
    /\ guessResult[h].attributes.genre.status = "incorrect"
    /\ guessResult[h].attributes.pages.status = "incorrect"
    /\ guessResult[h].attributes.genre.value = guessedOf(h).genre
    /\ guessResult[h].attributes.pages.value = guessedOf(h).pages
    /\ guessedOf(h).genre # dailyOf(h).genre
    /\ guessedOf(h).pages # dailyOf(h).pages

\* A catalog book's title equals the title ignoring case.
titleKnown(bs, title) ==
  \E i \in 1..Len(bs) : toLowerCase(bs[i].title) = toLowerCase(title)

\* The result r of a lookup of the title is a book exactly when the title
\* is known, and then a book of that title.
exactLookup(bs, title, r) ==
  /\ (r # 0) <=> titleKnown(bs, title)
  /\ (r # 0) => toLowerCase(bookOf(bs, r).title) = toLowerCase(title)

\* The lookup of MemStorage (the one the handler called) and of
\* PostgresStorage resolve exactly the known titles.
lookupExactInMemory ==
  \A h \in Handlers :
    guessResult[h] # Null =>
      /\ scored(h) <=> titleKnown(books, bookTitle[h])
      /\ exactLookup(books, bookTitle[h], getBookByTitle(books, bookTitle[h]))
      /\ \A r \in postgresGetBookByTitle(books, bookTitle[h]) :
           exactLookup(books, bookTitle[h], r)

\* C25: a title resolves to a book exactly when a catalog book's title
\* equals it ignoring case, and then to such a book; a pattern or a part
\* of a title never resolves, in MemStorage, SupabaseStorage and
\* PostgresStorage.
C25_TitleResolution ==
  /\ lookupExactInMemory
  /\ \A h \in Handlers :
       guessResult[h] # Null =>
         \A r \in supabaseGetBookByTitle(books, bookTitle[h]) :
           exactLookup(books, bookTitle[h], r)

\* Calendar dates of one year: three days of every month.
Dates ==
  { [year |-> Today.year, month |-> m, day |-> dd] :
      m \in 1..12, dd \in {1, 15, 28} }

bookIds(bs) == { bs[i].id : i \in 1..Len(bs) }

\* Handler h has called getDailyBook and holds its result.
holdsDailyBook(h) == pc[h] \in {"creating", "lookup", "readCreating"}

throwing(h) == pc[h] \in {"guessThrown", "gameThrown"}

\* C27: on an empty catalog, while it is loading included, the call that
\* obtains the daily book does not return, and the request that needs the
\* book fails with the error "No books available" and with no other.
C27_NoBooksAvailable ==
  \A h \in Handlers :
    /\ books = <<>> => ~holdsDailyBook(h)
    /\ throwing(h) => response[h] = [thrown |-> "No books available"]

\* C28: whenever the player's stats exist, guessDistribution has exactly
\* 8 counters, those created by the first GET /api/stats included.
C28_EightCounters ==
  gameStats # Null => Len(gameStats.guessDistribution) = 8

\* Guesses of the same title in today's session, the one a handler has
\* just scored included, carry the same isCorrect and the same statuses.
sameScores ==
  hasSession =>
    /\ \A i, j \in 1..Len(session.guesses) :
         session.guesses[i].title = session.guesses[j].title =>
           session.guesses[i] = session.guesses[j]
    /\ \A h \in Handlers :
         scored(h) =>
           \A i \in 1..Len(session.guesses) :
             session.guesses[i].title = guessResult[h].title =>
               session.guesses[i] = guessResult[h]

\* Handler h runs checkGuess in this step.
checksGuess(h) ==
  /\ pc[h] \in {"loaded", "lookup"}
  /\ pc'[h] \in {"lookup", "scored"}

scoredAgainst(guess, id) ==
  guess = checkGuess(bookOf(books, getBookByTitle(books, guess.title)),
                     bookOf(books, id))

\* The values of the attributes are those of the book of the given id.
valuesOf(attrs, id) ==
  \A i \in 1..Len(attrs) :
    attrs[i].value = initialAttributes(bookOf(books, id))[i].value

\* C30: every accepted guess is scored against the book of the session's
\* dailyBookId; that book is also the one whose values the revealed
\* attributes carry and the one disclosed at the end of the game, also
\* after a book was added or the daily book was forced by a reset.
C30_OneBookPerSession ==
  [][\A t \in Tabs :
       (applies(t) /\ hasSession) =>
         LET guesses == localGameState'[t].guesses
             guess == guesses[Len(guesses)]
             target == session.dailyBookId
         IN  /\ scoredAgainst(guess, target)
             /\ valuesOf(localGameState'[t].revealedAttributes, target)
             /\ valuesOf(session.revealedAttributes, target)
             /\ correctBook'[t] \in {0, target}]_vars

\* ------------------------------------------- claims on the end of a game

\* The positions of the correct guesses of a session.
correctGuesses(gs) ==
  {i \in 1..Len(gs.guesses) : gs.guesses[i].isCorrect}

\* C31: a session is won iff its last recorded guess is correct, lost iff
\* 8 guesses are recorded and none is correct, and at most one recorded
\* guess is correct, which then is the last.
C31_StatusMatchesGuesses ==
  \A o \in allocated :
    LET gs == heap[o]
        n == Len(gs.guesses)
    IN  /\ (gs.gameStatus = "won") <=> (n \in correctGuesses(gs))
        /\ (gs.gameStatus = "lost") <=>
             (n = MaxAttempts /\ correctGuesses(gs) = {})
        /\ correctGuesses(gs) \subseteq {n}

\* C31 witness: a session won by its 8th guess after 7 wrong ones.
C31_Witness ==
  /\ hasSession
  /\ session.gameStatus = "won"
  /\ Len(session.guesses) = MaxAttempts
  /\ correctGuesses(session) = {MaxAttempts}

\* C32: a session that is won or lost leads to a statistics update for
\* it, the modal being closed and the request succeeding; for lost
\* sessions as for won ones.
C32_TerminalLeadsToUpdate ==
  \A t \in Tabs :
    (localGameState[t] # Null /\ terminal(localGameState[t]))
      ~> lsStatsUpdated

\* This step stores the statistics update of the given result.
issues(won, attempts) ==
  gameStats' = updateGameStats(gameStats,
                               statsUpdate(gameStats, won, attempts),
                               statsCurrentId)

\* C33: the statistics are only updated for a session that is won or
\* lost, with won = (gameStatus = "won") and attempts = 8 minus
\* remainingAttempts, the number of guesses of that session.
C33_UpdateOfTerminalSession ==
  [][gameStats' # gameStats =>
       \E t \in Tabs :
         /\ localGameState[t] # Null
         /\ terminal(localGameState[t])
         /\ MaxAttempts - localGameState[t].remainingAttempts =
              Len(localGameState[t].guesses)
         /\ issues(localGameState[t].gameStatus = "won",
                   Len(localGameState[t].guesses))]_vars

\* C33 witness: the update of a session won by its second guess is
\* stored.
C33_Witness ==
  /\ lsStatsUpdated
  /\ gameStats # Null
  /\ localGameState["t1"] # Null
  /\ localGameState["t1"].gameStatus = "won"
  /\ Len(localGameState["t1"].guesses) = 2
  /\ gameStats.guessDistribution[2] = 1

\* C34: after any sequence of statistics updates from absent stats,
\* gamesWon <= gamesPlayed, currentStreak <= maxStreak, currentStreak <=
\* gamesWon, and the distribution counters add up to gamesWon.
C34_StatsConsistent ==
  statsQuiet =>
    /\ counter(gameStats, "gamesWon") <= counter(gameStats, "gamesPlayed")
    /\ counter(gameStats, "currentStreak") <= counter(gameStats, "maxStreak")
    /\ counter(gameStats, "currentStreak") <= counter(gameStats, "gamesWon")
    /\ distSum(gameStats, 8) = counter(gameStats, "gamesWon")

\* C34 witness: two wins and then a loss have been saved.
C34_Witness ==
  /\ statsQuiet
  /\ gameStats # Null
  /\ gameStats.gamesPlayed = 3
  /\ gameStats.gamesWon = 2
  /\ gameStats.currentStreak = 0
  /\ gameStats.maxStreak = 2

\* The 7 statuses of the guess are all correct.
allStatusesCorrect(guess) ==
  \A f \in DOMAIN guess.attributes : guess.attributes[f].status = "correct"

fallbackAnswers(h, s) ==
  /\ (gameState[h] = 0 /\ gameState'[h] # 0) =>
        /\ gameStates' # 0
        /\ gameState'[h] = gameStates'
        /\ heap'[gameStates'] =
             createGameState(bookOf(books, getDailyBook(books, Today)), Today)
        /\ supabaseGameState' = supabaseGameState
  /\ (pc[h] = "loaded" /\ pc'[h] = "lookup") =>
        dailyBook'[h] = getDailyBook(books, Today)
  /\ (pc[h] = "scored" /\ pc'[h] = "saved") =>
        /\ gameStates' = gameState[h]
        /\ heap'[gameStates'] = applyGuess(heap[gameState[h]], guessResult[h])
        /\ supabaseGameState' = supabaseGameState
  /\ (statsPc[s] = "loaded" /\ statsPc'[s] = "sent") =>
        /\ gameStats' =
             updateGameStats(gameStats,
                             statsUpdate(loadedStats[s].value,
                                         statsBody[s][1], statsBody[s][2]),
                             statsCurrentId)
        /\ supabaseGameStats' = supabaseGameStats

C36_FallbackAfterFirstError ==
  /\ [](primaryErrorLogged => usesFallback)
  /\ [][primaryErrorLogged => primaryCalled' = primaryCalled]_vars
  /\ [][(~primaryErrorLogged /\ primaryErrorLogged') =>
          fallbackAnswers("h1", "s1")]_vars

\* The primary storage has thrown, and guesses and a statistics update
\* have been served since.
C36_Witness ==
  /\ primaryErrorLogged
  /\ usesFallback
  /\ gameStates # 0
  /\ Len(heap[gameStates].guesses) >= 2
  /\ gameStats # Null

\* ------------------------------------------------------------------ C37
\* The attributes shown in s1 are shown in s2.
keepsRevealed(s1, s2) ==
  \A i \in 1..Len(s1.revealedAttributes) :
    s1.revealedAttributes[i].revealed =>
      \E j \in 1..Len(s2.revealedAttributes) :
        /\ s2.revealedAttributes[j].name = s1.revealedAttributes[i].name
        /\ s2.revealedAttributes[j].value = s1.revealedAttributes[i].value
        /\ s2.revealedAttributes[j].revealed

\* The counters of st1 are kept in st2, or have grown by later games.
keepsCounters(st1, st2) ==
  /\ st2.gamesPlayed >= st1.gamesPlayed
  /\ st2.gamesWon >= st1.gamesWon
  /\ st2.maxStreak >= st1.maxStreak

\* No request is being served on the FallbackStorage build.
fallbackQuiet == pc["h1"] = "idle" /\ statsPc["s1"] = "idle"

\* What the routes serve from the fallback storage: GET /api/game and the
\* guess route get or create the session, GET /api/stats gets or creates
\* the statistics.
servedGameState ==
  IF gameStates # 0 THEN heap[gameStates]
  ELSE createGameState(bookOf(books, getDailyBook(books, Today)), Today)

servedGameStats == IF gameStats # Null THEN gameStats ELSE emptyStats

\* C37: after the switch to the fallback storage the game goes on: the
\* session served for the date is the one Supabase held (same book, its
\* guesses, attempts no higher, its revealed attributes, its won or lost
\* status), and the statistics served keep the counters Supabase held.
C37_SwitchKeepsGame ==
  (usesFallback /\ fallbackQuiet) =>
    /\ supabaseGameState # Null =>
         /\ continues(supabaseGameState, servedGameState)
         /\ servedGameState.remainingAttempts
              <= supabaseGameState.remainingAttempts
         /\ keepsRevealed(supabaseGameState, servedGameState)
    /\ supabaseGameStats # Null =>
         keepsCounters(supabaseGameStats, servedGameStats)

\* ------------------------------------------------------------------ C38
\* The step by which handler h stores the session it has created.
creates(h) == pc[h] = "creating" /\ pc'[h] = "loaded"

\* C38: when two requests both find no session for the date and both
\* create one, one session exists afterwards: every handler works on the
\* stored session, and a session creation leaves the stored session with
\* the guesses it had.
C38_FirstAccessOneSession ==
  /\ [](\A h \in Handlers : gameState[h] # 0 => gameState[h] = gameStates)
  /\ [][\A h \in Handlers :
          (creates(h) /\ hasSession) => continues(session, session')]_vars

\* ------------------------------------------------------------------ C39
\* C39: after every guess the tab's local session and the server's
\* session agree on remainingAttempts, on the number of guesses, on
\* gameStatus and on the set of revealed attributes.
C39_ClientMirrorsServer ==
  (localGameState["t1"] # Null /\ hasSession) =>
    /\ localGameState["t1"].remainingAttempts = session.remainingAttempts
    /\ Len(localGameState["t1"].guesses) = Len(session.guesses)
    /\ localGameState["t1"].gameStatus = session.gameStatus
    /\ revealedNames(localGameState["t1"].revealedAttributes)
         = revealedNames(session.revealedAttributes)

\* ------------------------------------------------------------------ C40
\* C40: a session never holds more than 8 guesses, and one that holds 8
\* is won or lost.
C40_TerminalWithinEight ==
  \A gs \in sessionsNow :
    /\ Len(gs.guesses) <= MaxAttempts
    /\ Len(gs.guesses) = MaxAttempts => terminal(gs)

\* A session lost with its 8th guess, and a further guess refused.
C40_Witness ==
  /\ hasSession
  /\ Len(session.guesses) = MaxAttempts
  /\ session.gameStatus = "lost"
  /\ \E h \in Handlers :
       response[h] = [status |-> 400, error |-> "Game is already over"]

====
